---- MODULE Spec2Model ----
(***************************************************************************)
(* Omni-Cortex storage core: schema migrations, the hooks' session marker, *)
(* the embedding store and the memory/relationship tables it refers to.    *)
(*                                                                         *)
(* Each component has its own next-state relation (NextMig, NextSess,      *)
(* NextEmb) over the shared variables; a component's specification leaves  *)
(* the other components' variables at their initial values.                *)
(***************************************************************************)
EXTENDS Integers, Sequences, FiniteSets, TLC

VARIABLES
    SCHEMA_VERSION, \* database/schema.py: the baseline version migrate records
    tables,         \* tables that exist in the database file
    cols,           \* columns added to activities beyond the original baseline
    idx,            \* indexes created by migrations
    ledger,         \* schema_migrations rows, in insertion order
    clock,          \* readings of now_iso() taken so far by the migration code
    call,           \* history: what the last migrate() call saw and did
    wall,           \* wall clock of the hooks, in seconds
    ticks,          \* how many times the clock has advanced
    marker,         \* .omni-cortex/current_session.json
    sessions,       \* sessions table: id -> row
    hook,           \* history: the get_or_create_session call just made
    run,            \* history: the current run of closely spaced hook calls
    ended,          \* history: the end_session call just made
    memories,       \* memories table: id -> row
    embeddings,     \* embeddings table: a set of rows
    relationships,  \* memory_relationships table: a set of edges
    stored,         \* history: the store_embedding call just made
    bf,             \* the backfill_embeddings call in progress, if any
    bfh,            \* history: what the backfill runs so far have done
    txn,            \* the store connection's open transaction, if any
    gen,            \* history: the generate_and_store_embedding call last made
    model_ok,       \* whether sentence_transformers can be imported
    avail,          \* history: the is_model_available call just made
    payload,        \* the tool_input / tool_output value a caller has built
    red,            \* history: the redact_sensitive_fields call just made
    activities,     \* activities table: rows in insertion order
    agents,         \* agents table: id -> row
    actClock,       \* the clock the activity writers read
    logged,         \* history: the activity write just attempted
    page,           \* history: the get_activities call just made
    notes,          \* memories table: id -> the columns search reads and writes
    fts,            \* memories_fts, the keyword index: id -> indexed words
    srchClock,      \* the clock the memory store and search read
    found,          \* history: the search call just made
    attributed,     \* activity and memory rows by session, as a summary reads them
    stats,          \* sessions table: id -> the computed summary columns
    summ,           \* history: the get_session_summary call just made
    vec,            \* a float32 vector, each element as its 32-bit pattern
    blob,           \* history: the bytes vector_to_blob made of vec
    back,           \* history: the vector blob_to_vector made of blob
    cands,          \* the memories a hybrid search matched, with their factors
    ranked,         \* history: the hybrid ranking just computed
    draft,          \* the content of a memory about to be created, in words
    typed,          \* history: the last creation and the one before it
    committedAgents, \* the agents table as committed, what a new connection reads
    markerFile,     \* current_session.json as two hook processes share it
    sessionRows,    \* the sessions table those processes write
    hooks,          \* each hook process: where it is and what it holds
    leftMarker      \* history: the marker and the rows the processes found

migVars == <<SCHEMA_VERSION, tables, cols, idx, ledger, clock, call>>
sessVars == <<wall, ticks, marker, sessions, hook, run, ended>>
embVars == <<memories, embeddings, relationships, stored, bf, bfh,
            txn, gen, model_ok, avail>>
actVars == <<payload, red, activities, agents, actClock, logged, page>>
srchVars == <<notes, fts, srchClock, found>>
sumVars == <<attributed, stats, summ>>
blobVars == <<vec, blob, back>>
rankVars == <<cands, ranked>>
catVars == <<draft, typed>>
diskVars == <<committedAgents>>
ccVars == <<markerFile, sessionRows, hooks, leftMarker>>
extVars == <<srchVars, sumVars, blobVars, rankVars, catVars, diskVars, ccVars>>

(***************************************************************************)
(* Strings are sequences of character codes, so that version comparison is *)
(* Python's str comparison (lexicographic by code point), not a numeric    *)
(* one.                                                                    *)
(***************************************************************************)
V10 == <<49, 46, 48>>   \* "1.0"
V11 == <<49, 46, 49>>   \* "1.1"
V12 == <<49, 46, 50>>   \* "1.2"

RECURSIVE StrLess(_, _)
StrLess(a, b) ==
    IF a = <<>> THEN b # <<>>
    ELSE IF b = <<>> THEN FALSE
    ELSE IF Head(a) # Head(b) THEN Head(a) < Head(b)
    ELSE StrLess(Tail(a), Tail(b))

\* Python's None where a version string is expected.
NoVersion == <<>>
\* Names the baseline script in a fault (no version string is "b").
BaselineScript == <<98>>

AddColumn(c) == [op |-> "add_column", name |-> c, on |-> "activities"]
CreateIndex(i, c) == [op |-> "create_index", name |-> i, on |-> c]

\* MIGRATIONS: version -> the statements of its SQL script, in script order.
MIGRATIONS ==
    (V11 :> << AddColumn("command_name"), AddColumn("command_scope"),
               AddColumn("mcp_server"), AddColumn("skill_name"),
               CreateIndex("idx_activities_command", "command_name"),
               CreateIndex("idx_activities_mcp", "mcp_server"),
               CreateIndex("idx_activities_skill", "skill_name") >>)
    @@
    (V12 :> << AddColumn("summary"), AddColumn("summary_detail") >>)

\* The versions a baseline may carry: the original one or a later release's.
BaselineVersions == {V10, V11, V12}

RECURSIVE SortedSeq(_)
SortedSeq(S) ==
    IF S = {} THEN <<>>
    ELSE LET m == CHOOSE x \in S : \A y \in S \ {x} : StrLess(x, y)
         IN  <<m>> \o SortedSeq(S \ {m})

\* The columns and indexes a baseline of version v already contains: those of
\* every migration up to v.
RECURSIVE StmtsUpTo(_, _)
StmtsUpTo(v, vs) ==
    IF vs = <<>> THEN <<>>
    ELSE IF StrLess(v, Head(vs)) THEN StmtsUpTo(v, Tail(vs))
    ELSE MIGRATIONS[Head(vs)] \o StmtsUpTo(v, Tail(vs))

\* get_schema_sql(): CREATE TABLE/INDEX IF NOT EXISTS statements.
get_schema_sql(v) ==
    << [op |-> "create_table", name |-> "activities",
        with |-> StmtsUpTo(v, SortedSeq(DOMAIN MIGRATIONS))],
       [op |-> "create_table", name |-> "schema_migrations", with |-> <<>>] >>

NoFault == [v |-> NoVersion, at |-> 0]

DbOf(t, c, i, l) == [tables |-> t, cols |-> c, idx |-> i, ledger |-> l]

\* One SQL statement against structure st; ok = FALSE is sqlite3.OperationalError.
ExecStmt(s, st) ==
    CASE s.op = "add_column" ->
            IF s.on \notin st.tables \/ s.name \in st.cols
            THEN [ok |-> FALSE, st |-> st]
            ELSE [ok |-> TRUE, st |-> [st EXCEPT !.cols = @ \cup {s.name}]]
      [] s.op = "create_index" ->
            IF s.on \notin st.cols THEN [ok |-> FALSE, st |-> st]
            ELSE [ok |-> TRUE, st |-> [st EXCEPT !.idx = @ \cup {s.name}]]
      [] s.op = "create_table" ->
            IF s.name \in st.tables THEN [ok |-> TRUE, st |-> st]
            ELSE [ok |-> TRUE,
                  st |-> [st EXCEPT
                      !.tables = @ \cup {s.name},
                      !.cols = @ \cup {s.with[k].name :
                                 k \in {j \in DOMAIN s.with : s.with[j].op = "add_column"}},
                      !.idx = @ \cup {s.with[k].name :
                                 k \in {j \in DOMAIN s.with : s.with[j].op = "create_index"}}]]

\* sqlite3's executescript: the statements run one after another outside any
\* transaction, each one committed as it completes; the first failing one
\* (its own error, or an I/O fault at statement failAt) ends the script.
RECURSIVE executescript(_, _, _, _)
executescript(sql, k, failAt, st) ==
    IF k > Len(sql) THEN [ok |-> TRUE, st |-> st]
    ELSE IF k = failAt THEN [ok |-> FALSE, st |-> st]
    ELSE LET r == ExecStmt(sql[k], st)
         IN  IF r.ok THEN executescript(sql, k + 1, failAt, r.st) ELSE r

\* An I/O fault the environment may inject into one call: statement `at` of
\* the named script fails, or (at = Len + 1) the ledger INSERT after it.
Faults ==
    {NoFault}
    \cup UNION {{[v |-> ver, at |-> k] : k \in 1..(Len(MIGRATIONS[ver]) + 1)} :
                   ver \in DOMAIN MIGRATIONS}
    \cup {[v |-> BaselineScript, at |-> k] :
              k \in 1..(Len(get_schema_sql(V10)) + 1)}

FailAt(fault, script) == IF fault.v = script THEN fault.at ELSE 0

\* get_current_version: the version of the row with the latest applied_at;
\* None when the table is missing or empty.
get_current_version(st) ==
    IF "schema_migrations" \notin st.tables \/ st.ledger = <<>> THEN NoVersion
    ELSE LET i == CHOOSE i \in DOMAIN st.ledger :
                     \A j \in DOMAIN st.ledger :
                         st.ledger[j].applied_at <= st.ledger[i].applied_at
         IN  st.ledger[i].version

\* conn.executescript(sql); conn.execute(INSERT INTO schema_migrations ...);
\* conn.commit(). Returns the database as it is on disk afterwards, whether
\* the call returned (ok) or raised, and the events of the step.
RunAndRecord(st, script, version, sql, fault, now) ==
    LET r == executescript(sql, 1, FailAt(fault, script), st)
        insertFails == \/ FailAt(fault, script) = Len(sql) + 1
                       \/ "schema_migrations" \notin r.st.tables
    IN  IF ~r.ok THEN [ok |-> FALSE, st |-> r.st, ev |-> << <<"begin", version>> >>]
        ELSE IF insertFails
        THEN [ok |-> FALSE, st |-> r.st,
              ev |-> << <<"begin", version>>, <<"sql_ok", version>> >>]
        ELSE [ok |-> TRUE,
              st |-> [r.st EXCEPT !.ledger =
                          Append(@, [version |-> version, applied_at |-> now])],
              ev |-> << <<"begin", version>>, <<"sql_ok", version>>,
                        <<"ledger", version>> >>]

apply_migration(st, version, sql, fault, now) ==
    RunAndRecord(st, version, version, sql, fault, now)

\* `if version > current` on Python strings.
PendingGE(version, current) == ~StrLess(version, current)
Pending(version, current) == StrLess(current, version)

\* The loop of migrate over sorted(MIGRATIONS.keys()). stepPre is the
\* database as it was when the step that raised began.
RECURSIVE MigrateLoop(_, _, _, _, _, _)
MigrateLoop(versions, current, st, fault, now, trace) ==
    IF versions = <<>>
    THEN [raised |-> FALSE, version |-> current, st |-> st, now |-> now,
          trace |-> trace, stepPre |-> st]
    ELSE IF Pending(Head(versions), current)
    THEN LET a == apply_migration(st, Head(versions), MIGRATIONS[Head(versions)],
                                  fault, now)
         IN  IF a.ok
             THEN MigrateLoop(Tail(versions), Head(versions), a.st, fault, now + 1,
                              trace \o a.ev)
             ELSE [raised |-> TRUE, version |-> NoVersion, st |-> a.st,
                   now |-> now, trace |-> trace \o a.ev, stepPre |-> st]
    ELSE MigrateLoop(Tail(versions), current, st, fault, now, trace)

migrate(st, baseline, fault, now) ==
    LET current == get_current_version(st)
    IN  IF current = NoVersion
        THEN LET a == RunAndRecord(st, BaselineScript, baseline,
                                   get_schema_sql(baseline), fault, now)
             IN  IF a.ok
                 THEN [raised |-> FALSE, version |-> baseline, st |-> a.st,
                       now |-> now + 1, trace |-> a.ev, stepPre |-> st]
                 ELSE [raised |-> TRUE, version |-> NoVersion, st |-> a.st,
                       now |-> now, trace |-> a.ev, stepPre |-> st]
        ELSE MigrateLoop(SortedSeq(DOMAIN MIGRATIONS), current, st, fault, now, <<>>)

NoCall == [made |-> FALSE]

Db == DbOf(tables, cols, idx, ledger)

InitMig ==
    /\ SCHEMA_VERSION \in BaselineVersions
    /\ tables \in {{}, {"activities"}}
    /\ cols = {}
    /\ idx = {}
    /\ ledger = <<>>
    /\ clock = 0
    /\ call = NoCall

\* One call of migrate(), with the fault the environment injects into it.
Migrate ==
    \E fault \in Faults :
        LET r == migrate(Db, SCHEMA_VERSION, fault, clock)
        IN  /\ tables' = r.st.tables
            /\ cols' = r.st.cols
            /\ idx' = r.st.idx
            /\ ledger' = r.st.ledger
            /\ clock' = r.now
            /\ call' = [made |-> TRUE, pre |-> Db, current |-> get_current_version(Db),
                        fault |-> fault, raised |-> r.raised, version |-> r.version,
                        trace |-> r.trace, stepPre |-> r.stepPre,
                        prev |-> IF call.made
                                 THEN [made |-> TRUE, raised |-> call.raised,
                                       version |-> call.version]
                                 ELSE [made |-> FALSE, raised |-> FALSE,
                                       version |-> NoVersion]]
            /\ UNCHANGED SCHEMA_VERSION

NextMig == Migrate /\ UNCHANGED <<sessVars, embVars, actVars, extVars>>

(***************************************************************************)
(* Sessions: the hooks' marker file and the sessions table.                *)
(***************************************************************************)

MaxTicks == 2
MaxSessions == 2

SESSION_TIMEOUT_SECONDS == 4 * 60 * 60

\* How far the clock may advance between two operations.
TickSteps == {1, SESSION_TIMEOUT_SECONDS - 1, SESSION_TIMEOUT_SECONDS}

RandomHex == {0, 1}              \* os.urandom(4).hex(), two of its values
NoId == <<>>
NoTime == -1                     \* SQL NULL in a timestamp column
NamedIds == {<<0 - 1, 1>>}       \* a session id the caller of start supplies
UnknownId == <<0 - 1, 0>>        \* an id no session ever has

\* datetime.isoformat() and datetime.fromisoformat(): an unparsable string
\* makes fromisoformat raise ValueError.
isoformat(t) == [iso |-> TRUE, t |-> t]
fromisoformat(str) == IF str.iso THEN [ok |-> TRUE, t |-> str.t]
                      ELSE [ok |-> FALSE, t |-> 0]

\* f"sess_{timestamp_ms}_{random_hex}"
generate_session_id(t, r) == <<t * 1000, r>>

AbsentMarker ==
    [kind |-> "absent", session_id |-> NoId,
     started_at |-> isoformat(0), last_activity_at |-> isoformat(0)]
UnreadableMarker == [AbsentMarker EXCEPT !.kind = "unreadable"]

\* load_session_file: None for a missing file and for one json cannot decode.
load_session_file(m) == IF m.kind = "ok" THEN m ELSE AbsentMarker

\* is_session_valid: last_activity_at younger than the timeout.
is_session_valid_le(session_data, t) ==
    LET last == fromisoformat(session_data.last_activity_at)
    IN  last.ok /\ (t - last.t) <= SESSION_TIMEOUT_SECONDS
is_session_valid_from_start(session_data, t) ==
    LET last == fromisoformat(session_data.started_at)
    IN  last.ok /\ (t - last.t) < SESSION_TIMEOUT_SECONDS
is_session_valid(session_data, t) ==
    LET last == fromisoformat(session_data.last_activity_at)
    IN  last.ok /\ (t - last.t) < SESSION_TIMEOUT_SECONDS

NewRow(t, origin) == [ended_at |-> NoTime, summary |-> "", origin |-> origin]

\* create_session_in_db: INSERT OR IGNORE INTO sessions (id, project_path,
\* started_at); an existing row with that id is left as it is.
create_session_in_db_replace(rows, session_id, t) ==
    [id \in DOMAIN rows \cup {session_id} |->
        IF id = session_id THEN NewRow(t, "hook") ELSE rows[id]]
create_session_in_db(rows, session_id, t) ==
    IF session_id \in DOMAIN rows THEN rows
    ELSE rows @@ (session_id :> NewRow(t, "hook"))

\* get_or_create_session: the marker, the table and the returned id.
get_or_create_session(m, rows, t, r) ==
    LET session_data == load_session_file(m)
    IN  IF session_data.kind = "ok" /\ is_session_valid(session_data, t)
        THEN [marker |-> [session_data EXCEPT !.last_activity_at = isoformat(t)],
              sessions |-> rows,
              ret |-> session_data.session_id]
        ELSE LET session_id == generate_session_id(t, r)
             IN  [marker |-> [kind |-> "ok", session_id |-> session_id,
                              started_at |-> isoformat(t),
                              last_activity_at |-> isoformat(t)],
                  sessions |-> create_session_in_db(rows, session_id, t),
                  ret |-> session_id]

\* Session.create: a new open row under the given or a generated id; an id
\* that is already taken is rejected.
create_session(rows, session_id, t) ==
    IF session_id \in DOMAIN rows THEN [ok |-> FALSE, sessions |-> rows]
    ELSE [ok |-> TRUE, sessions |-> rows @@ (session_id :> NewRow(t, "explicit"))]

\* Session.end: none for an unknown id; an open session gets ended_at and
\* its summary; a session that is already ended is rejected unchanged.
end_session_overwrite(rows, session_id, summary, t) ==
    IF session_id \notin DOMAIN rows THEN [ret |-> "none", sessions |-> rows]
    ELSE [ret |-> "session",
          sessions |-> [rows EXCEPT ![session_id].ended_at = t,
                                    ![session_id].summary = summary]]
end_session(rows, session_id, summary, t) ==
    IF session_id \notin DOMAIN rows THEN [ret |-> "none", sessions |-> rows]
    ELSE IF rows[session_id].ended_at # NoTime
    THEN [ret |-> "rejected", sessions |-> rows]
    ELSE [ret |-> "session",
          sessions |-> [rows EXCEPT ![session_id].ended_at = t,
                                    ![session_id].summary = summary]]

NoHook == [made |-> FALSE]
NoRun == [open |-> FALSE, id |-> NoId, first |-> 0, last |-> 0, same |-> TRUE]
NoEnd == [made |-> FALSE]

InitSess ==
    /\ wall = 0
    /\ ticks = 0
    /\ marker = AbsentMarker
    /\ sessions = <<>>
    /\ hook = NoHook
    /\ run = NoRun
    /\ ended = NoEnd

\* Time passes between two operations.
Tick ==
    /\ ticks < MaxTicks
    /\ \E dt \in TickSteps : wall' = wall + dt
    /\ ticks' = ticks + 1
    /\ hook' = NoHook
    /\ ended' = NoEnd
    /\ UNCHANGED <<marker, sessions, run>>
    /\ UNCHANGED <<migVars, embVars, actVars, extVars>>

\* A hook process runs get_or_create_session. The random part of a new id
\* is taken not to repeat one drawn in the same millisecond.
HookGetOrCreateSession ==
    \E r \in RandomHex :
        LET res == get_or_create_session(marker, sessions, wall, r)
            continues == run.open /\ wall - run.last < SESSION_TIMEOUT_SECONDS
        IN  /\ generate_session_id(wall, r) \notin DOMAIN sessions
            /\ Cardinality(DOMAIN res.sessions) <= MaxSessions
            /\ marker' = res.marker
            /\ sessions' = res.sessions
            /\ hook' = [made |-> TRUE, at |-> wall, pre |-> marker,
                        preIds |-> DOMAIN sessions, ret |-> res.ret,
                        post |-> res.marker, postIds |-> DOMAIN res.sessions]
            /\ run' = IF continues
                      THEN [run EXCEPT !.last = wall,
                                       !.same = @ /\ res.ret = run.id]
                      ELSE [open |-> TRUE, id |-> res.ret, first |-> wall,
                            last |-> wall, same |-> TRUE]
            /\ ended' = NoEnd
            /\ UNCHANGED <<wall, ticks>>
            /\ UNCHANGED <<migVars, embVars, actVars, extVars>>

\* The marker file is removed, or left truncated by an interrupted write.
LoseMarker ==
    /\ marker.kind = "ok"
    /\ marker' \in {AbsentMarker, UnreadableMarker}
    /\ run' = NoRun
    /\ hook' = NoHook
    /\ ended' = NoEnd
    /\ UNCHANGED <<wall, ticks, sessions>>
    /\ UNCHANGED <<migVars, embVars, actVars, extVars>>

\* An explicit start, with a caller-supplied or a generated id.
StartSession ==
    \E id \in NamedIds \cup {generate_session_id(wall, r) : r \in RandomHex} :
        LET res == create_session(sessions, id, wall)
        IN  /\ Cardinality(DOMAIN res.sessions) <= MaxSessions
            /\ sessions' = res.sessions
            /\ hook' = NoHook
            /\ ended' = NoEnd
            /\ UNCHANGED <<wall, ticks, marker, run>>
            /\ UNCHANGED <<migVars, embVars, actVars, extVars>>

\* An explicit end of a known or unknown session.
EndSession ==
    \E id \in DOMAIN sessions \cup {UnknownId}, summary \in {"s1", "s2"} :
        LET res == end_session(sessions, id, summary, wall)
        IN  /\ sessions' = res.sessions
            /\ ended' = [made |-> TRUE, id |-> id, ret |-> res.ret,
                         known |-> id \in DOMAIN sessions,
                         wasOpen |-> id \in DOMAIN sessions
                                     /\ sessions[id].ended_at = NoTime,
                         pre |-> sessions]
            /\ hook' = NoHook
            /\ UNCHANGED <<wall, ticks, marker, run>>
            /\ UNCHANGED <<migVars, embVars, actVars, extVars>>

\* The hook's INSERT on its own: create_session_in_db under any id, one that
\* is already in the table included.
HookInsert ==
    \E id \in DOMAIN sessions \cup {generate_session_id(wall, r) : r \in RandomHex} :
        LET rows == create_session_in_db(sessions, id, wall)
        IN  /\ Cardinality(DOMAIN rows) <= MaxSessions
            /\ sessions' = rows
            /\ hook' = NoHook
            /\ ended' = NoEnd
            /\ UNCHANGED <<wall, ticks, marker, run>>
            /\ UNCHANGED <<migVars, embVars, actVars, extVars>>

\* The hooks and the marker.
NextHook ==
    \/ Tick
    \/ HookGetOrCreateSession
    \/ LoseMarker

\* The sessions table under every operation that writes it.
NextLife ==
    \/ Tick
    \/ StartSession
    \/ EndSession
    \/ HookInsert

NextSess ==
    \/ Tick
    \/ HookGetOrCreateSession
    \/ LoseMarker
    \/ StartSession
    \/ EndSession

(***************************************************************************)
(* Memories, relationship edges and the embedding store.                   *)
(***************************************************************************)

MaxMem == 2
MaxBatch == 2
MaxRuns == 2

MemIds == 1..MaxMem
Vectors == {"va", "vb"}          \* two float32 vectors a generator may return
BatchSizes == 1..MaxBatch        \* batch_size of a backfill call

\* The embeddings table's constraints: id is its primary key, memory_id is
\* unique and refers to memories(id), enforced on the store's connections.
EmbeddingConflicts(embs, row) ==
    {e \in embs : e.id = row.id \/ e.memory_id = row.memory_id}
EmbeddingParentExists(mem, memory_id) == memory_id \in DOMAIN mem

\* generate_embedding_id(): an id no embeddings row has.
generate_embedding_id(embs) ==
    CHOOSE n \in 1..(Cardinality(embs) + 1) : \A e \in embs : e.id # n

\* Memory.create: a fresh row, not embedded yet.
create_memory(mem, id) == mem @@ (id :> [has_embedding |-> FALSE])

\* Memory.delete: the row, its embedding and every edge it is an end of.
delete_memory_keep_edges(mem, embs, rels, id) ==
    [memories |-> [m \in DOMAIN mem \ {id} |-> mem[m]],
     embeddings |-> {e \in embs : e.memory_id # id},
     relationships |-> rels]
delete_memory(mem, embs, rels, id) ==
    [memories |-> [m \in DOMAIN mem \ {id} |-> mem[m]],
     embeddings |-> {e \in embs : e.memory_id # id},
     relationships |-> {r \in rels : r.source_id # id /\ r.target_id # id}]

\* Relationship.link: an edge between two existing memories; rejected when
\* either end does not exist.
link(mem, rels, source_id, target_id) ==
    IF source_id \in DOMAIN mem /\ target_id \in DOMAIN mem
    THEN [ok |-> TRUE,
          relationships |-> rels \cup {[source_id |-> source_id,
                                        target_id |-> target_id]}]
    ELSE [ok |-> FALSE, relationships |-> rels]

\* store_embedding: INSERT OR REPLACE of the row, UPDATE of the flag, commit.
\* A foreign-key failure of the INSERT raises before anything is written.
store_embedding_or_ignore(mem, embs, memory_id, vector) ==
    LET row == [id |-> generate_embedding_id(embs), memory_id |-> memory_id,
                vector |-> vector]
    IN  IF ~EmbeddingParentExists(mem, memory_id)
        THEN [raised |-> TRUE, memories |-> mem, embeddings |-> embs, id |-> 0]
        ELSE [raised |-> FALSE,
              embeddings |-> IF EmbeddingConflicts(embs, row) = {}
                             THEN embs \cup {row} ELSE embs,
              memories |-> [mem EXCEPT ![memory_id].has_embedding = TRUE],
              id |-> row.id]
store_embedding_keep_flag(mem, embs, memory_id, vector) ==
    LET row == [id |-> generate_embedding_id(embs), memory_id |-> memory_id,
                vector |-> vector]
    IN  IF ~EmbeddingParentExists(mem, memory_id)
        THEN [raised |-> TRUE, memories |-> mem, embeddings |-> embs, id |-> 0]
        ELSE [raised |-> FALSE,
              embeddings |-> (embs \ EmbeddingConflicts(embs, row)) \cup {row},
              memories |-> mem,
              id |-> row.id]
store_embedding(mem, embs, memory_id, vector) ==
    LET row == [id |-> generate_embedding_id(embs), memory_id |-> memory_id,
                vector |-> vector]
    IN  IF ~EmbeddingParentExists(mem, memory_id)
        THEN [raised |-> TRUE, memories |-> mem, embeddings |-> embs, id |-> 0]
        ELSE [raised |-> FALSE,
              embeddings |-> (embs \ EmbeddingConflicts(embs, row)) \cup {row},
              memories |-> [mem EXCEPT ![memory_id].has_embedding = TRUE],
              id |-> row.id]

\* get_embedding: the vector of the memory's row, or None. One result per
\* row the SELECT could return first.
NoVector == "None"
get_embedding(embs, memory_id) ==
    IF \E e \in embs : e.memory_id = memory_id
    THEN {e.vector : e \in {x \in embs : x.memory_id = memory_id}}
    ELSE {NoVector}

\* delete_embedding: DELETE; when a row went, the flag is cleared and the
\* transaction committed.
delete_embedding(mem, embs, memory_id) ==
    IF \E e \in embs : e.memory_id = memory_id
    THEN [ret |-> TRUE,
          embeddings |-> {e \in embs : e.memory_id # memory_id},
          memories |-> IF memory_id \in DOMAIN mem
                       THEN [mem EXCEPT ![memory_id].has_embedding = FALSE]
                       ELSE mem]
    ELSE [ret |-> FALSE, embeddings |-> embs, memories |-> mem]

NoStore == [made |-> FALSE]

\* The connection of the store is shared by its operations. memories and
\* embeddings are the tables as that connection reads them; while it holds
\* an open transaction, txn keeps the tables as they are on disk, and the
\* next commit on the connection makes what it reads durable.
NoTxn == [open |-> FALSE]
Begin(t, mem, embs) ==
    IF t.open THEN t ELSE [open |-> TRUE, memories |-> mem, embeddings |-> embs]
Durable ==
    IF txn.open THEN [memories |-> txn.memories, embeddings |-> txn.embeddings]
    ELSE [memories |-> memories, embeddings |-> embeddings]

\* Where a store_embedding call may raise: at its INSERT OR REPLACE, at its
\* UPDATE, at its commit, or nowhere. The statements before that point have
\* been executed on the connection; nothing in store_embedding or in its
\* callers rolls them back.
StoreFaults == {"none", "insert", "update", "commit"}
store_embedding_at(mem, embs, memory_id, vector, fault) ==
    LET done == store_embedding(mem, embs, memory_id, vector)
    IN  IF done.raised \/ fault = "insert"
        THEN [raised |-> TRUE, memories |-> mem, embeddings |-> embs,
              pending |-> FALSE, id |-> 0]
        ELSE IF fault = "update"
        THEN [raised |-> TRUE, memories |-> mem, embeddings |-> done.embeddings,
              pending |-> TRUE, id |-> 0]
        ELSE IF fault = "commit"
        THEN [raised |-> TRUE, memories |-> done.memories,
              embeddings |-> done.embeddings, pending |-> TRUE, id |-> 0]
        ELSE [raised |-> FALSE, memories |-> done.memories,
              embeddings |-> done.embeddings, pending |-> FALSE, id |-> done.id]

\* generate_embedding: a vector, or an exception (ImportError from
\* _get_model when the dependency is missing, or a failure of encode).
GenerateRaises == "raises"
generate_embedding(available) ==
    IF available THEN Vectors \cup {GenerateRaises} ELSE {GenerateRaises}

\* generate_and_store_embedding: generate, store, return the embedding id;
\* any Exception of either is logged and None is returned.
NoEmbeddingId == 0
generate_and_store_embedding(mem, embs, memory_id, generated, fault) ==
    IF generated = GenerateRaises
    THEN [ret |-> NoEmbeddingId, failed |-> TRUE, raised |-> FALSE,
          memories |-> mem, embeddings |-> embs,
          pending |-> FALSE, committed |-> FALSE]
    ELSE LET res == store_embedding_at(mem, embs, memory_id, generated, fault)
         IN  [ret |-> IF res.raised THEN NoEmbeddingId ELSE res.id,
              failed |-> res.raised, raised |-> FALSE,
              memories |-> res.memories, embeddings |-> res.embeddings,
              pending |-> res.pending, committed |-> ~res.raised]

\* is_model_available: whether the import succeeds.
is_model_available(available) == available

NoGen == [made |-> FALSE]
NoAvail == [made |-> FALSE]
NoBackfill == [pc |-> "idle", batch |-> {}, total_generated |-> 0, batch_size |-> 0]
NoBackfillHistory ==
    [open |-> FALSE, runs |-> 0, lacking |-> {}, storedIds |-> {}, twice |-> FALSE,
     earlier |-> 0, badSelect |-> FALSE]

InitEmb ==
    /\ memories = <<>>
    /\ embeddings = {}
    /\ relationships = {}
    /\ stored = NoStore
    /\ bf = NoBackfill
    /\ bfh = NoBackfillHistory
    /\ txn = NoTxn
    /\ gen = NoGen
    /\ model_ok = TRUE
    /\ avail = NoAvail

CreateMemory ==
    \E id \in MemIds \ DOMAIN memories :
        /\ memories' = create_memory(memories, id)
        /\ stored' = NoStore
        /\ txn' = NoTxn
        /\ UNCHANGED <<embeddings, relationships, bf, bfh, gen, model_ok, avail>>
        /\ UNCHANGED <<migVars, sessVars, actVars, extVars>>

DeleteMemory ==
    \E id \in DOMAIN memories :
        LET res == delete_memory(memories, embeddings, relationships, id)
        IN  /\ memories' = res.memories
            /\ embeddings' = res.embeddings
            /\ relationships' = res.relationships
            /\ stored' = [made |-> FALSE, deleted |-> id,
                          hadEmbedding |-> \E e \in embeddings : e.memory_id = id,
                          edges |-> Cardinality({r \in relationships :
                                        r.source_id = id \/ r.target_id = id})]
            /\ txn' = NoTxn
            /\ gen' = NoGen
            /\ UNCHANGED <<bf, bfh, model_ok, avail>>
            /\ UNCHANGED <<migVars, sessVars, actVars, extVars>>

LinkMemories ==
    \E s \in MemIds, t \in MemIds :
        LET res == link(memories, relationships, s, t)
        IN  /\ s # t
            /\ relationships' = res.relationships
            /\ stored' = NoStore
            /\ txn' = IF res.ok THEN NoTxn ELSE txn
            /\ UNCHANGED <<memories, embeddings, bf, bfh, gen, model_ok, avail>>
            /\ UNCHANGED <<migVars, sessVars, actVars, extVars>>

StoreEmbedding ==
    \E m \in MemIds, v \in Vectors :
        LET res == store_embedding(memories, embeddings, m, v)
        IN  /\ memories' = res.memories
            /\ embeddings' = res.embeddings
            /\ stored' = [made |-> TRUE, memory_id |-> m, vector |-> v,
                          raised |-> res.raised,
                          had |-> \E e \in embeddings : e.memory_id = m]
            /\ txn' = IF res.raised THEN txn ELSE NoTxn
            /\ gen' = NoGen
            /\ UNCHANGED <<relationships, bf, bfh, model_ok, avail>>
            /\ UNCHANGED <<migVars, sessVars, actVars, extVars>>

DeleteEmbedding ==
    \E m \in MemIds :
        LET res == delete_embedding(memories, embeddings, m)
        IN  /\ memories' = res.memories
            /\ embeddings' = res.embeddings
            /\ stored' = NoStore
            /\ txn' = IF res.ret THEN NoTxn ELSE txn
            /\ gen' = NoGen
            /\ UNCHANGED <<relationships, bf, bfh, model_ok, avail>>
            /\ UNCHANGED <<migVars, sessVars, actVars, extVars>>

\* get_memories_without_embeddings: the results SELECT ... WHERE
\* has_embedding = 0 LIMIT ? may return (no ORDER BY): any `limit` of the
\* memories that lack an embedding, or all of them when there are fewer.
get_memories_any_flag(mem, limit) ==
    {S \in SUBSET DOMAIN mem :
         Cardinality(S) = IF Cardinality(DOMAIN mem) < limit
                          THEN Cardinality(DOMAIN mem) ELSE limit}
get_memories_without_embeddings(mem, limit) ==
    LET cand == {m \in DOMAIN mem : ~mem[m].has_embedding}
    IN  {S \in SUBSET cand :
             Cardinality(S) = IF Cardinality(cand) < limit
                              THEN Cardinality(cand) ELSE limit}

\* backfill_embeddings is called: total_generated = 0, then the loop. A
\* call that follows an interrupted one continues that one's work.
BackfillStart ==
    /\ bf.pc = "idle"
    /\ bfh.runs < MaxRuns \/ ~bfh.open
    /\ \E n \in BatchSizes :
           bf' = [pc |-> "loop", batch |-> {}, total_generated |-> 0, batch_size |-> n]
    /\ bfh' = IF bfh.open
              THEN [bfh EXCEPT !.runs = @ + 1]
              ELSE [open |-> TRUE, runs |-> 1,
                    lacking |-> {m \in DOMAIN memories : ~memories[m].has_embedding},
                    storedIds |-> {}, twice |-> FALSE, earlier |-> 0,
                    badSelect |-> FALSE]
    /\ stored' = NoStore
    /\ UNCHANGED <<memories, embeddings, relationships, txn, gen, model_ok, avail>>
    /\ UNCHANGED <<migVars, sessVars, actVars, extVars>>

\* The head of the loop: select a batch and generate its vectors, or return
\* total_generated when nothing is left. generate_embeddings_batch raises
\* ImportError out of backfill_embeddings when the model cannot be loaded.
BackfillSelect ==
    /\ bf.pc = "loop"
    /\ \E S \in get_memories_without_embeddings(memories, bf.batch_size) :
           /\ bf' = IF S = {} THEN [bf EXCEPT !.pc = "returned"]
                    ELSE IF ~model_ok THEN [bf EXCEPT !.pc = "raised"]
                    ELSE [bf EXCEPT !.pc = "store", !.batch = S]
           /\ bfh' = [bfh EXCEPT
                          !.open = (S # {} /\ model_ok),
                          !.badSelect = @ \/ \E m \in S : memories[m].has_embedding]
    /\ stored' = NoStore
    /\ UNCHANGED <<memories, embeddings, relationships, txn, gen, model_ok, avail>>
    /\ UNCHANGED <<migVars, sessVars, actVars, extVars>>

\* One turn of the store loop: store_embedding for the next memory of the
\* batch, total_generated += 1.
BackfillStoreOne ==
    /\ bf.pc = "store"
    /\ \E m \in bf.batch, v \in Vectors :
           LET res == store_embedding(memories, embeddings, m, v)
               rest == bf.batch \ {m}
           IN  /\ ~res.raised
               /\ memories' = res.memories
               /\ embeddings' = res.embeddings
               /\ bf' = [bf EXCEPT !.batch = rest,
                                   !.total_generated = @ + 1,
                                   !.pc = IF rest = {} THEN "loop" ELSE "store"]
               /\ bfh' = [bfh EXCEPT !.storedIds = @ \cup {m},
                                     !.twice = @ \/ m \in bfh.storedIds]
    /\ stored' = NoStore
    /\ txn' = NoTxn
    /\ gen' = NoGen
    /\ UNCHANGED <<relationships, model_ok, avail>>
    /\ UNCHANGED <<migVars, sessVars, actVars, extVars>>

\* The process running backfill_embeddings is stopped: between two stores
\* or between two batches. What it committed stays; its counter is lost.
BackfillInterrupt ==
    /\ bf.pc \in {"loop", "store"}
    /\ bf' = NoBackfill
    /\ bfh' = [bfh EXCEPT !.earlier = @ + bf.total_generated]
    /\ stored' = NoStore
    /\ UNCHANGED <<memories, embeddings, relationships, txn, gen, model_ok, avail>>
    /\ UNCHANGED <<migVars, sessVars, actVars, extVars>>

\* The caller takes the returned count, or the exception.
BackfillReturn ==
    /\ bf.pc \in {"returned", "raised"}
    /\ bf' = NoBackfill
    /\ bfh' = NoBackfillHistory
    /\ stored' = NoStore
    /\ UNCHANGED <<memories, embeddings, relationships, txn, gen, model_ok, avail>>
    /\ UNCHANGED <<migVars, sessVars, actVars, extVars>>

NoBackfillAtWork == bf.pc = "idle" /\ ~bfh.open

\* Backfill runs with no other writer between the first call and the
\* return of the last.
NextBackfill ==
    \/ NoBackfillAtWork /\ CreateMemory
    \/ NoBackfillAtWork /\ StoreEmbedding
    \/ NoBackfillAtWork /\ DeleteEmbedding
    \/ BackfillStart
    \/ BackfillSelect
    \/ BackfillStoreOne
    \/ BackfillInterrupt
    \/ BackfillReturn

\* One call of backfill_embeddings that is left to run to its return, with
\* no other writer while it runs.
NextBackfillRun ==
    \/ NoBackfillAtWork /\ CreateMemory
    \/ NoBackfillAtWork /\ StoreEmbedding
    \/ NoBackfillAtWork /\ DeleteEmbedding
    \/ BackfillStart
    \/ BackfillSelect
    \/ BackfillStoreOne
    \/ BackfillReturn

\* generate_and_store_embedding is called for a memory id.
GenerateAndStore ==
    \E m \in MemIds, g \in generate_embedding(model_ok), f \in StoreFaults :
        LET res == generate_and_store_embedding(memories, embeddings, m, g, f)
            rowsBefore == {e \in Durable.embeddings : e.memory_id = m}
        IN  /\ memories' = res.memories
            /\ embeddings' = res.embeddings
            /\ txn' = IF res.committed THEN NoTxn
                      ELSE IF res.pending THEN Begin(txn, memories, embeddings)
                      ELSE txn
            /\ gen' = [made |-> TRUE, memory_id |-> m, failed |-> res.failed,
                       raised |-> res.raised, ret |-> res.ret,
                       available |-> model_ok, fault |-> f,
                       rowsBefore |-> rowsBefore,
                       flagBefore |-> (m \in DOMAIN Durable.memories
                                       /\ Durable.memories[m].has_embedding),
                       wrote |-> (res.memories # memories
                                  \/ res.embeddings # embeddings)]
            /\ stored' = NoStore
            /\ avail' = NoAvail
            /\ UNCHANGED <<relationships, bf, bfh, model_ok>>
            /\ UNCHANGED <<migVars, sessVars, actVars, extVars>>

\* is_model_available is called.
IsModelAvailable ==
    /\ avail' = [made |-> TRUE, ret |-> is_model_available(model_ok),
                 available |-> model_ok]
    /\ UNCHANGED <<memories, embeddings, relationships, stored, bf, bfh, txn,
                   gen, model_ok>>
    /\ UNCHANGED <<migVars, sessVars, actVars, extVars>>

\* sentence_transformers is installed into, or removed from, the
\* environment between two operations of the store.
ModelDependency ==
    /\ bf.pc = "idle"
    /\ model_ok' = ~model_ok
    /\ avail' = NoAvail
    /\ gen' = NoGen
    /\ UNCHANGED <<memories, embeddings, relationships, stored, bf, bfh, txn>>
    /\ UNCHANGED <<migVars, sessVars, actVars, extVars>>

\* Embeddings generated one memory at a time, by a generator and a database
\* that may fail.
NextGen ==
    \/ CreateMemory
    \/ DeleteEmbedding
    \/ GenerateAndStore

\* The embedding operations callers reach while the dependency may be
\* missing; what they do while it is installed is NextGen and NextBackfill.
NextNoModel ==
    \/ NoBackfillAtWork /\ CreateMemory
    \/ NoBackfillAtWork /\ ~model_ok /\ GenerateAndStore
    \/ NoBackfillAtWork /\ IsModelAvailable
    \/ ModelDependency
    \/ BackfillStart
    \/ BackfillSelect
    \/ BackfillStoreOne
    \/ BackfillReturn

\* Every writer of the has_embedding flag and of the embeddings rows, on
\* the one connection of the store.
NextFlag ==
    \/ NoBackfillAtWork /\ CreateMemory
    \/ NoBackfillAtWork /\ DeleteMemory
    \/ NoBackfillAtWork /\ StoreEmbedding
    \/ NoBackfillAtWork /\ DeleteEmbedding
    \/ NoBackfillAtWork /\ GenerateAndStore
    \/ BackfillStart
    \/ BackfillSelect
    \/ BackfillStoreOne
    \/ BackfillReturn

NextEmb ==
    \/ CreateMemory
    \/ DeleteMemory
    \/ LinkMemories
    \/ StoreEmbedding
    \/ DeleteEmbedding

(***************************************************************************)
(* The activity log: payload redaction and truncation, the writers of      *)
(* activity rows (create_activity and the two hooks), agent tracking and   *)
(* get_activities.                                                         *)
(***************************************************************************)

MaxDepth == 3
MaxItems == 2

\* A payload is a tagged value: a scalar, a map from keys to payloads, a
\* list of payloads, or a string holding the JSON text of a payload. Keys
\* are sequences of characters, so that pattern matching reads them.
Scalar(s) == [t |-> "scalar", v |-> s]
Map(f) == [t |-> "map", v |-> f]
List(l) == [t |-> "list", v |-> l]
JsonStr(x) == [t |-> "str", v |-> x]
NoPayload == [t |-> "none", v |-> "None"]

K_api_key == <<"a", "p", "i", "_", "k", "e", "y">>
K_Auth_Token == <<"A", "u", "t", "h", "-", "T", "o", "k", "e", "n">>
K_path == <<"p", "a", "t", "h">>
Keys == {K_api_key, K_Auth_Token, K_path}
Original == "sk-123"             \* a value as the caller gave it
REDACTED == "[REDACTED]"

UpperCase == <<"A", "B", "C", "D", "E", "F", "G", "H", "I", "J", "K", "L", "M", "N", "O", "P", "Q", "R", "S", "T", "U", "V", "W", "X", "Y", "Z">>
LowerCase == <<"a", "b", "c", "d", "e", "f", "g", "h", "i", "j", "k", "l", "m", "n", "o", "p", "q", "r", "s", "t", "u", "v", "w", "x", "y", "z">>
lower(c) ==
    IF \E i \in 1..26 : UpperCase[i] = c
    THEN LowerCase[CHOOSE i \in 1..26 : UpperCase[i] = c]
    ELSE c

\* SENSITIVE_FIELD_PATTERNS: each regular expression as the set of the
\* literals it matches ([_-]? expanded); (?i) folds the case of the key.
SENSITIVE_FIELD_PATTERNS ==
   <<{<<"a", "p", "i", "_", "k", "e", "y">>,
     <<"a", "p", "i", "-", "k", "e", "y">>,
     <<"a", "p", "i", "k", "e", "y">>},
     {<<"p", "a", "s", "s", "w", "o", "r", "d">>,
     <<"p", "a", "s", "s", "w", "d">>,
     <<"p", "w", "d">>},
     {<<"s", "e", "c", "r", "e", "t">>,
     <<"t", "o", "k", "e", "n">>,
     <<"c", "r", "e", "d", "e", "n", "t", "i", "a", "l">>},
     {<<"a", "u", "t", "h", "_", "t", "o", "k", "e", "n">>,
     <<"a", "u", "t", "h", "-", "t", "o", "k", "e", "n">>,
     <<"a", "u", "t", "h", "t", "o", "k", "e", "n">>,
     <<"a", "c", "c", "e", "s", "s", "_", "t", "o", "k", "e", "n">>,
     <<"a", "c", "c", "e", "s", "s", "-", "t", "o", "k", "e", "n">>,
     <<"a", "c", "c", "e", "s", "s", "t", "o", "k", "e", "n">>},
     {<<"p", "r", "i", "v", "a", "t", "e", "_", "k", "e", "y">>,
     <<"p", "r", "i", "v", "a", "t", "e", "-", "k", "e", "y">>,
     <<"p", "r", "i", "v", "a", "t", "e", "k", "e", "y">>,
     <<"s", "s", "h", "_", "k", "e", "y">>,
     <<"s", "s", "h", "-", "k", "e", "y">>,
     <<"s", "s", "h", "k", "e", "y">>}>>

Contains(hay, word) ==
    \E i \in 1..(Len(hay) - Len(word) + 1) :
        SubSeq(hay, i, i + Len(word) - 1) = word

\* re.search(pattern, str(key)) for one of the patterns.
re_search(pattern, key) ==
    \E word \in pattern : Contains([i \in 1..Len(key) |-> lower(key[i])], word)

is_sensitive_cased(key) ==
    \E n \in 1..Len(SENSITIVE_FIELD_PATTERNS) :
        \E word \in SENSITIVE_FIELD_PATTERNS[n] : Contains(key, word)
is_sensitive(key) ==
    \E n \in 1..Len(SENSITIVE_FIELD_PATTERNS) :
        re_search(SENSITIVE_FIELD_PATTERNS[n], key)

\* redact_sensitive_fields: a value that is not a dict is returned as it is;
\* in a dict, a sensitive key gets the marker, a dict value is redacted in
\* turn, a list value has its dict items redacted and its other items kept.
RECURSIVE redact_sensitive_fields(_)
redact_sensitive_fields(data) ==
    IF data.t # "map" THEN data
    ELSE Map([key \in DOMAIN data.v |->
            LET value == data.v[key]
            IN  IF is_sensitive(key) THEN Scalar(REDACTED)
                ELSE IF value.t = "map" THEN redact_sensitive_fields(value)
                ELSE IF value.t = "list"
                THEN List([i \in 1..Len(value.v) |->
                            IF value.v[i].t = "map"
                            THEN redact_sensitive_fields(value.v[i])
                            ELSE value.v[i]])
                ELSE value])

RECURSIVE Depth(_)
Depth(x) ==
    IF x.t = "map"
    THEN 1 + (CHOOSE d \in 0..MaxDepth + 1 :
                 /\ \A k \in DOMAIN x.v : Depth(x.v[k]) <= d
                 /\ \E k \in DOMAIN x.v : Depth(x.v[k]) = d)
    ELSE IF x.t = "list"
    THEN 1 + (CHOOSE d \in 0..MaxDepth + 1 :
                 /\ \A i \in 1..Len(x.v) : Depth(x.v[i]) <= d
                 /\ \E i \in 1..Len(x.v) : Depth(x.v[i]) = d)
    ELSE 0

NoRedaction == [made |-> FALSE]

\* The payload a caller is about to hand over, built from the inside out.
PayloadScalar ==
    /\ payload' = Scalar(Original)
    /\ red' = NoRedaction
    /\ UNCHANGED <<activities, agents, actClock, logged, page>>
    /\ UNCHANGED <<migVars, sessVars, embVars, extVars>>

PayloadInMap ==
    /\ Depth(payload) < MaxDepth
    /\ \E k \in Keys : payload' = Map(k :> payload)
    /\ red' = NoRedaction
    /\ UNCHANGED <<activities, agents, actClock, logged, page>>
    /\ UNCHANGED <<migVars, sessVars, embVars, extVars>>

PayloadInList ==
    /\ Depth(payload) < MaxDepth
    /\ payload' = List(<<payload>>)
    /\ red' = NoRedaction
    /\ UNCHANGED <<activities, agents, actClock, logged, page>>
    /\ UNCHANGED <<migVars, sessVars, embVars, extVars>>

PayloadAddKey ==
    /\ payload.t = "map"
    /\ \E k \in Keys \ DOMAIN payload.v :
           payload' = Map(payload.v @@ (k :> Scalar(Original)))
    /\ red' = NoRedaction
    /\ UNCHANGED <<activities, agents, actClock, logged, page>>
    /\ UNCHANGED <<migVars, sessVars, embVars, extVars>>

PayloadAppend ==
    /\ payload.t = "list"
    /\ Len(payload.v) < MaxItems
    /\ payload' = List(Append(payload.v, Scalar(Original)))
    /\ red' = NoRedaction
    /\ UNCHANGED <<activities, agents, actClock, logged, page>>
    /\ UNCHANGED <<migVars, sessVars, embVars, extVars>>

\* redact_sensitive_fields is called, as the hooks call it: on a dict.
Redact ==
    /\ payload.t = "map"
    /\ red' = [made |-> TRUE, input |-> payload,
               output |-> redact_sensitive_fields(payload)]
    /\ UNCHANGED <<payload, activities, agents, actClock, logged, page>>
    /\ UNCHANGED <<migVars, sessVars, embVars, extVars>>

NextRedact ==
    \/ PayloadScalar
    \/ PayloadInMap
    \/ PayloadInList
    \/ PayloadAddKey
    \/ PayloadAppend
    \/ Redact

NoLog == [made |-> FALSE]
NoPage == [made |-> FALSE]

\* Nothing is committed to the agents table of a fresh database.
InitDisk == committedAgents = <<>>

InitAct ==
    /\ payload = Scalar(Original)
    /\ red = NoRedaction
    /\ activities = <<>>
    /\ agents = <<>>
    /\ actClock = 0
    /\ logged = NoLog
    /\ page = NoPage

(***************************************************************************)
(* Activity rows and their writers.                                        *)
(***************************************************************************)

MaxActs == 2
MaxClock == 1

CAP == 10000                     \* max_length of truncate, 10000 in create_activity
SLICE_MARGIN == 20               \* text[:max_length - 20]
MARKER_LEN == 16                 \* len("\n... [truncated]")
Lengths == {1, CAP, CAP + 1, 2 * CAP}

NoAgent == "None"
NoSession == "None"
NoTool == "None"
NoFilter == "None"
AgentIds == {"agent_a"}
SessionIds == {"sess_1", "sess_2"}

\* A text is what json.dumps gave or what the caller passed as a string: the
\* payload it spells, its length in characters, and whether it ends with the
\* truncation marker. The length is an input: it depends on the scalars.
NoText == [json |-> NoPayload, len |-> 0, marked |-> FALSE]
json_dumps(x, n) == [json |-> x, len |-> n, marked |-> FALSE]

\* truncate (both hooks): text[:max_length - 20] + "\n... [truncated]" when
\* the text is longer than max_length.
truncate_keep_all(text, max_length) == text
truncate(text, max_length) ==
    IF text.len <= max_length THEN text
    ELSE [json |-> text.json, len |-> (max_length - SLICE_MARGIN) + MARKER_LEN,
          marked |-> TRUE]

\* utils/truncation.py truncate_json: a text of at most max_length characters
\* that ends with the truncation marker.
truncate_json(text, max_length) ==
    [json |-> text.json, len |-> max_length, marked |-> TRUE]

\* generate_id of the hooks: act_{timestamp_ms}_{random_hex};
\* generate_activity_id of the store has the same form.
generate_id(t, r) == <<t * 1000, r>>
generate_activity_id(t, r) == <<t * 1000, r>>

IdTaken(acts, id) == \E i \in 1..Len(acts) : acts[i].id = id

\* The hooks' safe_input / safe_output.
Safe(x) == IF x.t = "map" THEN redact_sensitive_fields(x) ELSE x

\* create_activity: truncation of long texts, the agents upsert when an
\* agent id is given, the INSERT, the commit. fault names the statement that
\* raises, if one does; an id that is taken makes the INSERT raise. The
\* tables returned are those the connection reads afterwards.
ActivityFaults == {"none", "upsert", "insert", "commit"}
Upsert(ags, agent_id, timestamp) ==
    IF agent_id = NoAgent THEN ags
    ELSE IF agent_id \in DOMAIN ags
    THEN [ags EXCEPT ![agent_id].last_seen = timestamp,
                     ![agent_id].total_activities = @ + 1]
    ELSE ags @@ (agent_id :> [first_seen |-> timestamp, last_seen |-> timestamp,
                              total_activities |-> 1])
CutLong(text) ==
    IF text.json.t # "none" /\ text.len > CAP THEN truncate_json(text, CAP) ELSE text
NewActivity(data, session_id, t, r) ==
    [id |-> generate_activity_id(t, r), session_id |-> session_id,
     agent_id |-> data.agent_id, timestamp |-> t,
     event_type |-> data.event_type, tool_name |-> data.tool_name,
     tool_input |-> CutLong(data.tool_input),
     tool_output |-> CutLong(data.tool_output)]
create_activity_or_replace(acts, ags, data, session_id, t, r, fault) ==
    LET row == NewActivity(data, session_id, t, r)
    IN  [raised |-> FALSE,
         activities |-> IF IdTaken(acts, row.id)
                        THEN [i \in 1..Len(acts) |->
                                 IF acts[i].id = row.id THEN row ELSE acts[i]]
                        ELSE Append(acts, row),
         agents |-> Upsert(ags, data.agent_id, t),
         activity |-> row]
create_activity_last_seen_only(acts, ags, data, session_id, t, r, fault) ==
    LET row == NewActivity(data, session_id, t, r)
        a == data.agent_id
    IN  [raised |-> IdTaken(acts, row.id),
         activities |-> IF IdTaken(acts, row.id) THEN acts ELSE Append(acts, row),
         agents |-> IF a = NoAgent THEN ags
                    ELSE IF a \in DOMAIN ags THEN [ags EXCEPT ![a].last_seen = t]
                    ELSE Upsert(ags, a, t),
         activity |-> row]
create_activity(acts, ags, data, session_id, t, r, fault) ==
    LET row == NewActivity(data, session_id, t, r)
        upserted == Upsert(ags, data.agent_id, t)
    IN  IF fault = "upsert" /\ data.agent_id # NoAgent
        THEN [raised |-> TRUE, activities |-> acts, agents |-> ags,
              activity |-> row]
        ELSE IF fault = "insert" \/ IdTaken(acts, row.id)
        THEN [raised |-> TRUE, activities |-> acts, agents |-> upserted,
              activity |-> row]
        ELSE IF fault = "commit"
        THEN [raised |-> TRUE, activities |-> Append(acts, row),
              agents |-> upserted, activity |-> row]
        ELSE [raised |-> FALSE, activities |-> Append(acts, row),
              agents |-> upserted, activity |-> row]

\* cortex_log_activity: init_database, ActivityCreate, create_activity, all
\* inside try; any Exception becomes the returned error string.
ToolFaults == ActivityFaults \cup {"init_database", "validation"}
cortex_log_activity_unguarded(acts, ags, params, session_id, t, r, fault) ==
    LET res == create_activity(acts, ags, params, session_id, t, r, fault)
    IN  IF fault \in {"init_database", "validation"}
        THEN [ret |-> "raised", raised |-> TRUE, activities |-> acts,
              agents |-> ags, inserted |-> FALSE, row |-> res.activity]
        ELSE [ret |-> IF res.raised THEN "raised" ELSE "Logged",
              raised |-> res.raised, activities |-> res.activities,
              agents |-> res.agents, inserted |-> ~res.raised,
              row |-> res.activity]
cortex_log_activity(acts, ags, params, session_id, t, r, fault) ==
    LET res == create_activity(acts, ags, params, session_id, t, r, fault)
    IN  IF fault \in {"init_database", "validation"}
        THEN [ret |-> "Error logging activity", raised |-> FALSE,
              activities |-> acts, agents |-> ags, inserted |-> FALSE,
              row |-> res.activity]
        ELSE [ret |-> IF res.raised THEN "Error logging activity" ELSE "Logged",
              raised |-> FALSE, activities |-> res.activities,
              agents |-> res.agents, inserted |-> ~res.raised,
              row |-> res.activity]

\* main of a hook. stdin is what the hook reads: nothing, text that is not
\* JSON, JSON that is not an object, or the hook's input object; the
\* pre_tool_use hook also gives up when stdin is not ready within 5 seconds. A hook runs
\* in its own process on its own connection: a row it did not commit is
\* gone when the process ends. Every exit is through print and status 0.
Stdins == {"empty", "malformed", "not_object", "object"}
PreStdins == Stdins \cup {"not_ready"}
HookFaults == {"none", "ensure_database", "session", "insert", "commit"}
hook_try(acts, stdin, own_tool, row, fault) ==
    IF stdin \in {"not_ready", "empty"} \/ (stdin = "object" /\ own_tool)
    THEN [printed |-> "{}", raised |-> FALSE,
          activities |-> acts, inserted |-> FALSE]
    ELSE IF stdin # "object" \/ fault # "none" \/ IdTaken(acts, row.id)
    THEN [printed |-> "nothing", raised |-> TRUE,
          activities |-> acts, inserted |-> FALSE]
    ELSE [printed |-> "{}", raised |-> FALSE,
          activities |-> Append(acts, row), inserted |-> TRUE]
hook_main(acts, stdin, own_tool, row, fault) ==
    LET body == hook_try(acts, stdin, own_tool, row, fault)
    IN  [printed |-> IF body.raised THEN "systemMessage" ELSE body.printed,
         exit |-> 0, raised |-> FALSE,
         activities |-> body.activities, inserted |-> body.inserted]

pre_tool_use_main(acts, in, tool_input, t) ==
    hook_main(acts, in.stdin, in.own_tool,
              [id |-> generate_id(t, in.r), session_id |-> in.session_id,
               agent_id |-> in.agent_id, timestamp |-> t,
               event_type |-> "pre_tool_use", tool_name |-> in.tool_name,
               tool_input |-> truncate(json_dumps(Safe(tool_input), in.n_in), CAP),
               tool_output |-> NoText],
              in.fault)

post_tool_use_main(acts, in, tool_input, tool_output, t) ==
    hook_main(acts, in.stdin, in.own_tool,
              [id |-> generate_id(t, in.r), session_id |-> in.session_id,
               agent_id |-> in.agent_id, timestamp |-> t,
               event_type |-> "post_tool_use", tool_name |-> in.tool_name,
               tool_input |-> truncate(json_dumps(Safe(tool_input), in.n_in), CAP),
               tool_output |-> truncate(json_dumps(Safe(tool_output), in.n_out), CAP)],
              in.fault)

\* The inputs of one write: who calls, with texts of which lengths, and what
\* fails underneath.
WriteInputs(stdins, lens, agentIds, faults) ==
    [stdin : stdins, own_tool : BOOLEAN, tool_name : {"Read"},
     agent_id : agentIds, session_id : {"sess_1"}, event_type : {"decision"},
     n_in : lens, n_out : lens, r : RandomHex, fault : faults]

\* cortex_log_activity reads no stdin and skips no tool.
ToolInputs(lens, agentIds, faults) ==
    {in \in WriteInputs({"object"}, lens, agentIds, faults) : ~in.own_tool}

\* The pre_tool_use hook runs; tool_input is the payload at hand.
PreToolUse(in) ==
    LET res == pre_tool_use_main(activities, in, payload, actClock)
    IN  /\ activities' = res.activities
        /\ logged' = [made |-> TRUE, path |-> "pre_tool_use", out |-> res,
                      raised |-> res.raised, inserted |-> res.inserted,
                      fault |-> in.fault, agent_id |-> in.agent_id,
                      n_in |-> in.n_in, n_out |-> 0,
                      agentsBefore |-> agents]
        /\ page' = NoPage
        /\ UNCHANGED <<payload, red, agents, actClock>>
        /\ UNCHANGED <<migVars, sessVars, embVars, extVars>>

\* The post_tool_use hook runs; tool_input and tool_output are the payload.
PostToolUse(in) ==
    LET res == post_tool_use_main(activities, in, payload, payload, actClock)
    IN  /\ activities' = res.activities
        /\ logged' = [made |-> TRUE, path |-> "post_tool_use", out |-> res,
                      raised |-> res.raised, inserted |-> res.inserted,
                      fault |-> in.fault, agent_id |-> in.agent_id,
                      n_in |-> in.n_in, n_out |-> in.n_out,
                      agentsBefore |-> agents]
        /\ page' = NoPage
        /\ UNCHANGED <<payload, red, agents, actClock>>
        /\ UNCHANGED <<migVars, sessVars, embVars, extVars>>

\* cortex_log_activity is called; tool_input and tool_output are strings
\* holding the JSON text of the payload.
LogActivity(in) ==
    LET params == [event_type |-> in.event_type, tool_name |-> in.tool_name,
                   tool_input |-> json_dumps(JsonStr(payload), in.n_in),
                   tool_output |-> json_dumps(JsonStr(payload), in.n_out),
                   agent_id |-> in.agent_id]
        res == cortex_log_activity(activities, agents, params, in.session_id,
                                   actClock, in.r, in.fault)
    IN  /\ activities' = res.activities
        /\ agents' = res.agents
        /\ logged' = [made |-> TRUE, path |-> "create_activity", out |-> res,
                      raised |-> res.raised, inserted |-> res.inserted,
                      fault |-> in.fault, agent_id |-> in.agent_id,
                      n_in |-> in.n_in, n_out |-> in.n_out,
                      agentsBefore |-> agents]
        /\ page' = NoPage
        \* conn.commit() makes durable all that is pending on the connection
        /\ committedAgents' = IF res.inserted THEN res.agents ELSE committedAgents
        /\ UNCHANGED <<payload, red, actClock>>
        /\ UNCHANGED <<migVars, sessVars, embVars, srchVars, sumVars, blobVars,
                       rankVars, catVars, ccVars>>

\* Time passes between two writes.
ActTick ==
    /\ actClock < MaxClock
    /\ actClock' = actClock + 1
    /\ logged' = NoLog
    /\ page' = NoPage
    /\ UNCHANGED <<payload, red, activities, agents>>
    /\ UNCHANGED <<migVars, sessVars, embVars, extVars>>

\* A payload of any shape is put together and logged into an empty log: what
\* a writer stores of a payload does not depend on the rows before it.
NextLog ==
    \/ activities = <<>> /\ PayloadScalar
    \/ activities = <<>> /\ PayloadInMap
    \/ activities = <<>> /\ PayloadInList
    \/ activities = <<>> /\ PayloadAddKey
    \/ activities = <<>> /\ PayloadAppend
    \/ /\ activities = <<>>
       /\ \E in \in WriteInputs({"object"}, {1}, {NoAgent}, {"none"}) :
              PreToolUse(in)
    \/ /\ activities = <<>>
       /\ \E in \in WriteInputs({"object"}, {1}, {NoAgent}, {"none"}) :
              PostToolUse(in)
    \/ /\ activities = <<>>
       /\ \E in \in ToolInputs({1}, {NoAgent}, {"none"}) :
              LogActivity(in)

\* Activities with texts of every length around the cap.
NextTrunc ==
    \/ /\ Len(activities) < MaxActs
       /\ \E in \in WriteInputs({"object"}, Lengths, {NoAgent}, {"none"}) :
              PreToolUse(in)
    \/ /\ Len(activities) < MaxActs
       /\ \E in \in WriteInputs({"object"}, Lengths, {NoAgent}, {"none"}) :
              PostToolUse(in)
    \/ /\ Len(activities) < MaxActs
       /\ \E in \in ToolInputs(Lengths, {NoAgent}, {"none"}) :
              LogActivity(in)

\* get_activity: SELECT * FROM activities WHERE id = ?
get_activity(acts, id) ==
    SelectSeq(acts, LAMBDA row : row.id = id)

\* get_activities: the WHERE clause holds one condition per argument that is
\* truthy; total is COUNT(*) under it; the items are one page of the matches
\* ORDER BY timestamp DESC LIMIT ? OFFSET ?. Rows of equal timestamp come in
\* an order SQLite chooses, so the results form a set.
Matches(row, q) ==
    /\ q.session_id = NoFilter \/ row.session_id = q.session_id
    /\ q.agent_id = NoFilter \/ row.agent_id = q.agent_id
    /\ q.event_type = NoFilter \/ row.event_type = q.event_type
    /\ q.tool_name = NoFilter \/ row.tool_name = q.tool_name
    /\ q.since = NoTime \/ row.timestamp >= q.since
    /\ q.until = NoTime \/ row.timestamp <= q.until
PageOf(acts, q, M) ==
    LET n == Cardinality(M)
        lim == IF q.limit < 0 THEN n ELSE q.limit
        off == IF q.offset < 0 THEN 0 ELSE q.offset
        hi == IF off + lim < n THEN off + lim ELSE n
        Orders == {p \in [1..n -> M] :
                     \A i, j \in 1..n :
                        i < j => /\ p[i] # p[j]
                                 /\ acts[p[i]].timestamp >= acts[p[j]].timestamp}
    IN  {[k \in 1..(IF hi > off THEN hi - off ELSE 0) |-> acts[p[off + k]]] :
            p \in Orders}
get_activities_count_page(acts, q) ==
    LET M == {i \in 1..Len(acts) : Matches(acts[i], q)}
    IN  {[items |-> it, total |-> Len(it)] : it \in PageOf(acts, q, M)}
get_activities(acts, q) ==
    LET M == {i \in 1..Len(acts) : Matches(acts[i], q)}
    IN  {[items |-> it, total |-> Cardinality(M)] : it \in PageOf(acts, q, M)}

\* The arguments cortex_get_activities passes on: limit >= 1 and offset >= 0
\* by the tool's input validation.
AllQueries ==
    [session_id : {NoFilter, "sess_1"}, agent_id : {NoFilter, "agent_a"},
     event_type : {NoFilter, "decision"}, tool_name : {NoFilter, "Read"},
     since : {NoTime, 1}, until : {NoTime, 0},
     limit : {1, 2}, offset : {0, 1}]
\* Every combination of filters on the first page, and every page with at
\* most the agent filter.
Queries ==
    {q \in AllQueries :
        \/ q.limit = 2 /\ q.offset = 0
        \/ /\ q.session_id = NoFilter /\ q.event_type = NoFilter
           /\ q.tool_name = NoFilter /\ q.since = NoTime /\ q.until = NoTime}
PlainQueries ==
    {q \in Queries : /\ q.session_id = NoFilter /\ q.event_type = NoFilter
                     /\ q.tool_name = NoFilter /\ q.until = NoTime
                     /\ q.limit = 2 /\ q.offset = 0}

GetActivities(q) ==
    /\ \E res \in get_activities(activities, q) :
          page' = [made |-> TRUE, op |-> "get_activities", q |-> q,
                   items |-> res.items, total |-> res.total]
    /\ logged' = NoLog
    /\ UNCHANGED <<payload, red, activities, agents, actClock>>
    /\ UNCHANGED <<migVars, sessVars, embVars, extVars>>

GetActivity(id) ==
    /\ page' = [made |-> TRUE, op |-> "get_activity", q |-> id,
                items |-> get_activity(activities, id),
                total |-> Len(get_activity(activities, id))]
    /\ logged' = NoLog
    /\ UNCHANGED <<payload, red, activities, agents, actClock>>
    /\ UNCHANGED <<migVars, sessVars, embVars, extVars>>

\* Every operation of the activity component, with whatever may fail, within
\* one millisecond: the ids that can collide are those of one timestamp.
NextActivity ==
    \/ /\ Len(activities) < MaxActs
       /\ \E in \in WriteInputs(PreStdins, {1}, AgentIds, HookFaults) :
              PreToolUse(in)
    \/ /\ Len(activities) < MaxActs
       /\ \E in \in WriteInputs(Stdins, {1}, AgentIds, HookFaults) :
              PostToolUse(in)
    \/ /\ Len(activities) < MaxActs
       /\ \A a \in DOMAIN agents : agents[a].total_activities < MaxActs
       /\ \E in \in ToolInputs({1}, AgentIds, ToolFaults) :
              LogActivity(in)
    \/ \E q \in PlainQueries : GetActivities(q)
    \/ \E t \in 0..MaxClock, r \in RandomHex : GetActivity(generate_id(t, r))

\* Calls of create_activity that succeed, as time passes.
NextAgents ==
    \/ /\ Len(activities) < MaxActs + 1
       /\ \E in \in ToolInputs({1}, {NoAgent} \cup AgentIds \cup {"agent_b"},
                               {"none"}) :
              LogActivity(in) /\ logged'.inserted
    \/ ActTick

\* Calls of one agent, some of them failing at the INSERT of the activity.
NextCommit ==
    \/ /\ Len(activities) < MaxActs
       /\ \A a \in DOMAIN agents : agents[a].total_activities < MaxActs + 1
       /\ \E in \in ToolInputs({1}, AgentIds \cup {"agent_b"}, {"none", "insert"}) :
              LogActivity(in)
    \/ ActTick

\* Activities of a few kinds are logged and the log is queried.
ActivityKinds ==
    {[session_id |-> "sess_1", agent_id |-> "agent_a", event_type |-> "decision",
      tool_name |-> "Read"],
     [session_id |-> "sess_1", agent_id |-> NoAgent, event_type |-> "decision",
      tool_name |-> "Read"],
     [session_id |-> "sess_2", agent_id |-> "agent_a", event_type |-> "error",
      tool_name |-> "Bash"]}
\* The random part of a new id is the first one free at its millisecond: to
\* a query, ids matter only as far as they differ.
NextQuery ==
    \/ /\ Len(activities) < MaxActs
       /\ \E in \in ToolInputs({1}, {NoAgent}, {"none"}),
             kind \in ActivityKinds :
           /\ in.r = Cardinality({i \in 1..Len(activities) :
                                    activities[i].timestamp = actClock})
           /\ LogActivity([in EXCEPT !.session_id = kind.session_id,
                                     !.agent_id = kind.agent_id,
                                     !.event_type = kind.event_type,
                                     !.tool_name = kind.tool_name])
    \/ ActTick
    \/ \E q \in Queries : GetActivities(q)

(***************************************************************************)
(* The memory store's searchable columns, the keyword index its triggers   *)
(* keep, and search with its side effect on the rows it returns.           *)
(***************************************************************************)

MaxAccess == 1

SearchIds == {1, 2}              \* ids of the memories remember creates here
Words == {"timeout", "buffer"}
Contents == (SUBSET Words) \ {{}}
Statuses == {"fresh", "archived"}
NoContent == {}                  \* an update that leaves content out
NoStatus == "None"               \* an update that leaves status out
DEFAULT_IMPORTANCE == 50

\* The index-synchronization triggers of the baseline schema: after insert,
\* after delete and after update on memories.
memories_ai(index, id, row) == index @@ (id :> row.content)
memories_ad(index, id) == [i \in DOMAIN index \ {id} |-> index[i]]
memories_au_none(index, id, row) == index
memories_au(index, id, row) == memories_ai(memories_ad(index, id), id, row)

\* Memory.create: status fresh, default importance, never accessed; the
\* insert trigger writes the index entry in the same transaction.
remember(ns, index, id, content, now) ==
    LET row == [content |-> content, status |-> "fresh",
                importance_score |-> DEFAULT_IMPORTANCE,
                access_count |-> 0, last_accessed |-> now]
    IN  [notes |-> ns @@ (id :> row), fts |-> memories_ai(index, id, row)]

\* Memory.update: a partial update of content and status; none when the id
\* does not exist. The update trigger re-indexes the row.
update_memory(ns, index, id, content, status) ==
    IF id \notin DOMAIN ns THEN [found |-> FALSE, notes |-> ns, fts |-> index]
    ELSE LET row == [ns[id] EXCEPT
                       !.content = IF content = NoContent THEN @ ELSE content,
                       !.status = IF status = NoStatus THEN @ ELSE status]
         IN  [found |-> TRUE, notes |-> [ns EXCEPT ![id] = row],
              fts |-> memories_au(index, id, row)]

\* Memory.delete: hard delete; the delete trigger removes the index entry.
forget(ns, index, id) ==
    IF id \notin DOMAIN ns THEN [found |-> FALSE, notes |-> ns, fts |-> index]
    ELSE [found |-> TRUE, notes |-> [i \in DOMAIN ns \ {id} |-> ns[i]],
          fts |-> memories_ad(index, id)]

\* Keyword mode: the memories whose index entry holds every query term,
\* archived ones only on request.
Shown(row, include_archived) == include_archived \/ row.status # "archived"
keyword_search_all(ns, index, query, include_archived) ==
    {id \in DOMAIN index \cap DOMAIN ns : query \subseteq index[id]}
keyword_search(ns, index, query, include_archived) ==
    {id \in DOMAIN index \cap DOMAIN ns :
        query \subseteq index[id] /\ Shown(ns[id], include_archived)}

\* Semantic mode: the memories that have a stored vector, ranked by
\* similarity; every one of them is a candidate.
semantic_search(ns, embs, include_archived) ==
    {id \in DOMAIN ns :
        /\ \E e \in embs : e.memory_id = id
        /\ Shown(ns[id], include_archived)}

SearchModes == {"keyword", "semantic", "hybrid"}
search(ns, index, embs, query, mode, include_archived) ==
    IF mode = "keyword" THEN keyword_search(ns, index, query, include_archived)
    ELSE IF mode = "semantic" THEN semantic_search(ns, embs, include_archived)
    ELSE keyword_search(ns, index, query, include_archived)
            \cup semantic_search(ns, embs, include_archived)

\* The side effect of a retrieval: access_count + 1 and last_accessed = now
\* on every memory returned.
touch_all(ns, ids, now) ==
    [id \in DOMAIN ns |-> [ns[id] EXCEPT !.access_count = @ + 1,
                                        !.last_accessed = now]]
touch(ns, ids, now) ==
    [id \in DOMAIN ns |->
        IF id \in ids THEN [ns[id] EXCEPT !.access_count = @ + 1,
                                          !.last_accessed = now]
        ELSE ns[id]]

NoSearch == [made |-> FALSE]

InitSrch ==
    /\ notes = <<>>
    /\ fts = <<>>
    /\ srchClock = 0
    /\ found = NoSearch


\* cortex_remember: the memory is created, and embedded when the model is at
\* hand.
Remember(content, embed) ==
    \E id \in SearchIds \ DOMAIN notes :
        LET res == remember(notes, fts, id, content, srchClock)
            mem == create_memory(memories, id)
            emb == store_embedding(mem, embeddings, id, "va")
        IN  /\ notes' = res.notes
            /\ fts' = res.fts
            /\ memories' = IF embed THEN emb.memories ELSE mem
            /\ embeddings' = IF embed THEN emb.embeddings ELSE embeddings
            /\ found' = [made |-> FALSE, created |-> id]
            /\ UNCHANGED <<srchClock>>
            /\ UNCHANGED <<relationships, stored, bf, bfh, txn, gen, model_ok, avail>>
            /\ UNCHANGED <<migVars, sessVars, actVars, sumVars, blobVars, rankVars, catVars, diskVars, ccVars>>

\* cortex_update_memory
UpdateMemory(id, content, status) ==
    LET res == update_memory(notes, fts, id, content, status)
    IN  /\ notes' = res.notes
        /\ fts' = res.fts
        /\ found' = [made |-> FALSE, updated |-> id]
        /\ UNCHANGED <<srchClock>>
        /\ UNCHANGED <<migVars, sessVars, embVars, actVars, sumVars, blobVars, rankVars, catVars, diskVars, ccVars>>

\* cortex_forget: the row, its index entry, its embedding and its edges.
Forget(id) ==
    LET res == forget(notes, fts, id)
        gone == IF id \in DOMAIN memories
                THEN delete_memory(memories, embeddings, relationships, id)
                ELSE [memories |-> memories, embeddings |-> embeddings,
                      relationships |-> relationships]
    IN  /\ notes' = res.notes
        /\ fts' = res.fts
        /\ memories' = gone.memories
        /\ embeddings' = gone.embeddings
        /\ relationships' = gone.relationships
        /\ found' = [made |-> FALSE, deleted |-> id]
        /\ UNCHANGED <<srchClock>>
        /\ UNCHANGED <<stored, bf, bfh, txn, gen, model_ok, avail>>
        /\ UNCHANGED <<migVars, sessVars, actVars, sumVars, blobVars, rankVars, catVars, diskVars, ccVars>>

\* cortex_recall: one search call and its side effect.
Search(query, mode, include_archived) ==
    LET ids == search(notes, fts, embeddings, query, mode, include_archived)
    IN  /\ \A id \in ids : notes[id].access_count < MaxAccess
        /\ notes' = touch(notes, ids, srchClock)
        /\ found' = [made |-> TRUE, query |-> query, mode |-> mode,
                     include_archived |-> include_archived, ids |-> ids,
                     at |-> srchClock, before |-> notes,
                     others |-> search(notes, fts, embeddings, query, mode,
                                       ~include_archived)]
        /\ UNCHANGED <<fts, srchClock>>
        /\ UNCHANGED <<migVars, sessVars, embVars, actVars, sumVars, blobVars, rankVars, catVars, diskVars, ccVars>>

SrchTick ==
    /\ srchClock < MaxClock
    /\ srchClock' = srchClock + 1
    /\ found' = NoSearch
    /\ UNCHANGED <<notes, fts>>
    /\ UNCHANGED <<migVars, sessVars, embVars, actVars, sumVars, blobVars, rankVars, catVars, diskVars, ccVars>>

NextSearch ==
    \/ \E content \in Contents, embed \in BOOLEAN : Remember(content, embed)
    \/ \E id \in SearchIds, content \in Contents \cup {NoContent},
         status \in Statuses \cup {NoStatus} : UpdateMemory(id, content, status)
    \/ \E id \in SearchIds : Forget(id)
    \/ \E query \in Contents, mode \in SearchModes, include_archived \in BOOLEAN :
          Search(query, mode, include_archived)

\* One-word memories are searched as time passes.
NextAccess ==
    \/ \E word \in Words : Remember({word}, FALSE)
    \/ \E id \in SearchIds : Forget(id)
    \/ \E query \in Contents : Search(query, "keyword", FALSE)
    \/ SrchTick

(***************************************************************************)
(* The session summary: what end_session computes and stores, and what     *)
(* get_session_summary returns.                                            *)
(***************************************************************************)

NoFile == "None"
NoError == "None"

\* Rows attributed to a session: an activity with its tool, file path and
\* outcome, or a memory whose source_session_id is the session.
ActivityOf(session_id, tool_name, file_path, error_message) ==
    [kind |-> "activity", session_id |-> session_id, tool_name |-> tool_name,
     file_path |-> file_path, success |-> error_message = NoError,
     error_message |-> error_message]
MemoryOf(session_id) ==
    [kind |-> "memory", session_id |-> session_id, tool_name |-> NoTool,
     file_path |-> NoFile, success |-> TRUE, error_message |-> NoError]
AttributedRows ==
    {ActivityOf(id, "Read", NoFile, NoError) : id \in NamedIds \cup {UnknownId}}
    \cup {ActivityOf(id, "Edit", "/src/main.py", NoError) : id \in NamedIds}
    \cup {ActivityOf(id, "Edit", "/src/main.py", "Permission denied") : id \in NamedIds}
    \cup {MemoryOf(id) : id \in NamedIds}

\* The summary columns of a session row that was just created.
NoStats ==
    [total_activities |-> 0, tools_used |-> <<>>, files_modified |-> {},
     key_errors |-> {}, total_memories_created |-> 0]

\* What end_session computes from the rows attributed to the session.
compute_summary(rows, session_id) ==
    LET mine == {i \in 1..Len(rows) : rows[i].session_id = session_id}
        acts == {i \in mine : rows[i].kind = "activity"}
        tools == {rows[i].tool_name : i \in acts}
    IN  [total_activities |-> Cardinality(acts),
         tools_used |-> [tool \in tools |->
                            Cardinality({i \in acts : rows[i].tool_name = tool})],
         files_modified |-> {rows[i].file_path : i \in acts} \ {NoFile},
         key_errors |-> {rows[i].error_message :
                            i \in {j \in acts : ~rows[j].success}},
         total_memories_created |->
             Cardinality({i \in mine : rows[i].kind = "memory"})]

\* end_session with its summary columns: an open session is ended and the
\* computed summary stored with it; an unknown or ended session is left.
end_session_stats(rows, st, session_id, ret) ==
    IF ret = "session"
    THEN [st EXCEPT ![session_id] = compute_summary(rows, session_id)]
    ELSE st

\* get_session_summary: the stored columns of the session row; none for an
\* unknown id.
get_session_summary_live(rows, st, session_id) ==
    IF session_id \in DOMAIN st
    THEN [found |-> TRUE, summary |-> compute_summary(rows, session_id)]
    ELSE [found |-> FALSE, summary |-> NoStats]
get_session_summary(rows, st, session_id) ==
    IF session_id \in DOMAIN st
    THEN [found |-> TRUE, summary |-> st[session_id]]
    ELSE [found |-> FALSE, summary |-> NoStats]

NoSummary == [made |-> FALSE]

InitSum ==
    /\ attributed = <<>>
    /\ stats = <<>>
    /\ summ = NoSummary


\* create_session under a caller's id.
SumStart(id) ==
    LET res == create_session(sessions, id, wall)
    IN  /\ res.ok
        /\ sessions' = res.sessions
        /\ stats' = stats @@ (id :> NoStats)
        /\ summ' = NoSummary
        /\ hook' = NoHook
        /\ ended' = NoEnd
        /\ UNCHANGED <<attributed>>
        /\ UNCHANGED <<wall, ticks, marker, run>>
        /\ UNCHANGED <<migVars, embVars, actVars, srchVars, blobVars, rankVars, catVars, diskVars, ccVars>>

\* An activity is logged under a session id, or a memory is created with
\* it as its source session; the session may be open, ended or unknown.
Attribute(row) ==
    /\ Len(attributed) < MaxActs + 1
    /\ attributed' = Append(attributed, row)
    /\ summ' = NoSummary
    /\ UNCHANGED <<stats>>
    /\ UNCHANGED <<migVars, sessVars, embVars, actVars, srchVars, blobVars, rankVars, catVars, diskVars, ccVars>>

\* end_session
SumEnd(id) ==
    LET res == end_session(sessions, id, "s1", wall)
    IN  /\ sessions' = res.sessions
        /\ stats' = end_session_stats(attributed, stats, id, res.ret)
        /\ summ' = [made |-> FALSE, ended |-> id, ret |-> res.ret,
                    rows |-> attributed]
        /\ hook' = NoHook
        /\ ended' = NoEnd
        /\ UNCHANGED <<attributed>>
        /\ UNCHANGED <<wall, ticks, marker, run>>
        /\ UNCHANGED <<migVars, embVars, actVars, srchVars, blobVars, rankVars, catVars, diskVars, ccVars>>

\* get_session_summary
GetSessionSummary(id) ==
    LET res == get_session_summary(attributed, stats, id)
    IN  /\ summ' = [made |-> TRUE, id |-> id, found |-> res.found,
                    summary |-> res.summary]
        /\ UNCHANGED <<attributed, stats>>
        /\ UNCHANGED <<migVars, sessVars, embVars, actVars, srchVars, blobVars, rankVars, catVars, diskVars, ccVars>>

NextSummary ==
    \/ \E id \in NamedIds : SumStart(id)
    \/ \E row \in AttributedRows : Attribute(row)
    \/ \E id \in NamedIds \cup {UnknownId} : SumEnd(id)
    \/ \E id \in NamedIds \cup {UnknownId} : GetSessionSummary(id)

(***************************************************************************)
(* Vector serialization: vector_to_blob and blob_to_vector.                *)
(***************************************************************************)

MaxDim == 3

\* A float32 is its 32 bits, written as the high and the low 16 bits. Some
\* patterns: 0.0, -0.0, 0.1, the largest finite value, a NaN with a payload.
NegativeZero == <<32768, 0>>
PayloadNaN == <<32704, 1>>
Float32Bits == {<<0, 0>>, NegativeZero, <<15820, 52429>>, <<32639, 65535>>,
                PayloadNaN}
ITEMSIZE == 4                    \* np.float32: bytes per element
BYTE == 256

\* The bytes of one element in the machine's byte order, and back.
ElementBytes(w, order) ==
    IF order = "little"
    THEN <<w[2] % BYTE, w[2] \div BYTE, w[1] % BYTE, w[1] \div BYTE>>
    ELSE <<w[1] \div BYTE, w[1] % BYTE, w[2] \div BYTE, w[2] % BYTE>>
ElementOf(b, order) ==
    IF order = "little"
    THEN <<b[3] + BYTE * b[4], b[1] + BYTE * b[2]>>
    ELSE <<BYTE * b[1] + b[2], BYTE * b[3] + b[4]>>
OtherOrder(order) == IF order = "little" THEN "big" ELSE "little"

\* vector.astype(np.float32).tobytes(): astype keeps a float32 as it is;
\* tobytes lays the elements out one after the other.
RECURSIVE tobytes(_, _)
tobytes(v, order) ==
    IF v = <<>> THEN <<>>
    ELSE ElementBytes(Head(v), order) \o tobytes(Tail(v), order)
vector_to_blob(vector, order) == tobytes(vector, order)

\* np.frombuffer(blob, dtype=np.float32): one element per 4 bytes.
blob_to_vector_swapped(b, order) ==
    [i \in 1..(Len(b) \div ITEMSIZE) |->
        ElementOf(SubSeq(b, ITEMSIZE * (i - 1) + 1, ITEMSIZE * i), OtherOrder(order))]
blob_to_vector(b, order) ==
    [i \in 1..(Len(b) \div ITEMSIZE) |->
        ElementOf(SubSeq(b, ITEMSIZE * (i - 1) + 1, ITEMSIZE * i), order)]

ByteOrders == {"little", "big"}  \* sys.byteorder of the machine
NoBlob == [made |-> FALSE]

InitBlob ==
    /\ vec = <<>>
    /\ blob = NoBlob
    /\ back = NoBlob


\* A caller puts a vector together.
VecAppend(w) ==
    /\ Len(vec) < MaxDim
    /\ vec' = Append(vec, w)
    /\ blob' = NoBlob
    /\ back' = NoBlob
    /\ UNCHANGED <<migVars, sessVars, embVars, actVars, srchVars, sumVars, rankVars, catVars, diskVars, ccVars>>

VectorToBlob(order) ==
    /\ blob' = [made |-> TRUE, bytes |-> vector_to_blob(vec, order),
                order |-> order]
    /\ back' = NoBlob
    /\ UNCHANGED <<vec>>
    /\ UNCHANGED <<migVars, sessVars, embVars, actVars, srchVars, sumVars, rankVars, catVars, diskVars, ccVars>>

\* The blob is read back on the machine that wrote it.
BlobToVector ==
    /\ blob.made
    /\ back' = [made |-> TRUE, vector |-> blob_to_vector(blob.bytes, blob.order)]
    /\ UNCHANGED <<vec, blob>>
    /\ UNCHANGED <<migVars, sessVars, embVars, actVars, srchVars, sumVars, rankVars, catVars, diskVars, ccVars>>

NextBlob ==
    \/ \E w \in Float32Bits : VecAppend(w)
    \/ \E order \in ByteOrders : VectorToBlob(order)
    \/ BlobToVector

(***************************************************************************)
(* Hybrid ranking: one rank out of relevance, importance, recency and      *)
(* access frequency.                                                       *)
(***************************************************************************)

MaxCands == 2

FactorLevels == {0, 1}           \* a lower and a higher value of a factor
RankNow == 1                     \* the time of the search
Factors == {"relevance", "importance_score", "last_accessed", "access_count"}
Candidates ==
    [relevance : FactorLevels, importance_score : FactorLevels,
     last_accessed : FactorLevels, access_count : FactorLevels]

\* The blend weights are a policy; every weight is positive.
Policies ==
    {[relevance |-> 1, importance |-> 1, recency |-> 1, frequency |-> 1],
     [relevance |-> 2, importance |-> 1, recency |-> 1, frequency |-> 1],
     [relevance |-> 1, importance |-> 2, recency |-> 1, frequency |-> 2]}

\* The recency term: the less time since last_accessed, the higher.
recency(last_accessed, now) == RankNow - (now - last_accessed)
staleness(last_accessed, now) == now - last_accessed

hybrid_score_stale(m, w, now) ==
      w.relevance * m.relevance
    + w.importance * m.importance_score
    + w.recency * staleness(m.last_accessed, now)
    + w.frequency * m.access_count
hybrid_score(m, w, now) ==
      w.relevance * m.relevance
    + w.importance * m.importance_score
    + w.recency * recency(m.last_accessed, now)
    + w.frequency * m.access_count

\* The results by descending score; equal scores in creation order.
Outranks(cs, w, now, i, j) ==
    \/ hybrid_score(cs[i], w, now) > hybrid_score(cs[j], w, now)
    \/ /\ hybrid_score(cs[i], w, now) = hybrid_score(cs[j], w, now)
       /\ i < j
RankOf(cs, w, now, i) ==
    1 + Cardinality({j \in DOMAIN cs : Outranks(cs, w, now, j, i)})
hybrid_rank(cs, w, now) ==
    [k \in 1..Len(cs) |-> CHOOSE i \in DOMAIN cs : RankOf(cs, w, now, i) = k]

NoRanking == [made |-> FALSE]

InitRank ==
    /\ cands = <<>>
    /\ ranked = NoRanking


\* A memory that matches the query, with its four factors.
RankMatch(m) ==
    /\ Len(cands) < MaxCands
    /\ cands' = Append(cands, m)
    /\ ranked' = NoRanking
    /\ UNCHANGED <<migVars, sessVars, embVars, actVars, srchVars, sumVars, blobVars, catVars, diskVars, ccVars>>

HybridSearch(w) ==
    /\ cands # <<>>
    /\ ranked' = [made |-> TRUE, weights |-> w,
                  order |-> hybrid_rank(cands, w, RankNow)]
    /\ UNCHANGED <<cands>>
    /\ UNCHANGED <<migVars, sessVars, embVars, actVars, srchVars, sumVars, blobVars, catVars, diskVars, ccVars>>

NextRank ==
    \/ \E m \in Candidates : RankMatch(m)
    \/ \E w \in Policies : HybridSearch(w)

(***************************************************************************)
(* Auto-categorization of a memory created without a type.                 *)
(***************************************************************************)

MaxWords == 2

\* Content is a sequence of words. The scan is case-insensitive: the words
\* are lowered first, and a cue matches where a lowered word contains it.
Vocabulary ==
    {"WARNING:", "Never", "$", "run", "TypeError:", "failed", "fix", "config",
     "tip", "note"}
Lower(word) ==
    CASE word = "WARNING:" -> "warning:"
      [] word = "Never" -> "never"
      [] word = "TypeError:" -> "typeerror:"
      [] OTHER -> word
CuesIn(lowered) ==
    CASE lowered = "warning:" -> {"warning"}
      [] lowered = "never" -> {"never"}
      [] lowered = "run" -> {"run"}
      [] lowered = "typeerror:" -> {"error"}
      [] lowered = "failed" -> {"failed"}
      [] lowered = "fix" -> {"fix"}
      [] lowered = "config" -> {"config"}
      [] lowered = "tip" -> {"tip"}
      [] OTHER -> {}
LEADING_DOLLAR == "leading $"
CuesOf(content) ==
    UNION {CuesIn(Lower(content[i])) : i \in DOMAIN content}
      \cup (IF content # <<>> /\ Lower(content[1]) = "$"
            THEN {LEADING_DOLLAR} ELSE {})

\* The rules in their priority order.
Rules ==
    << [type |-> "warning", cues |-> {"warning", "avoid", "never"}],
       [type |-> "command", cues |-> {LEADING_DOLLAR, "run", "execute"}],
       [type |-> "error", cues |-> {"error", "exception", "failed"}],
       [type |-> "solution", cues |-> {"fix", "resolved", "solution"}],
       [type |-> "config", cues |-> {"config"}],
       [type |-> "troubleshooting", cues |-> {"troubleshooting"}],
       [type |-> "code", cues |-> {"code"}],
       [type |-> "concept", cues |-> {"concept"}],
       [type |-> "decision", cues |-> {"decision"}],
       [type |-> "tip", cues |-> {"tip"}] >>
MemoryTypes == {Rules[k].type : k \in DOMAIN Rules} \cup {"general"}
RuleMatches(k, content) == Rules[k].cues \cap CuesOf(content) # {}

auto_categorize_last(content) ==
    IF \A k \in DOMAIN Rules : ~RuleMatches(k, content) THEN "general"
    ELSE Rules[CHOOSE k \in DOMAIN Rules :
                  /\ RuleMatches(k, content)
                  /\ \A j \in DOMAIN Rules : RuleMatches(j, content) => j <= k].type
auto_categorize(content) ==
    IF \A k \in DOMAIN Rules : ~RuleMatches(k, content) THEN "general"
    ELSE Rules[CHOOSE k \in DOMAIN Rules :
                  /\ RuleMatches(k, content)
                  /\ \A j \in DOMAIN Rules : RuleMatches(j, content) => k <= j].type

\* Memory.create: the type given, or else the detected one.
NoType == "None"
Contexts == {"None", "while deploying"}
memory_type(content, context, type) ==
    IF type = NoType THEN auto_categorize(content) ELSE type

NoCreation == [made |-> FALSE]

InitCat ==
    /\ draft = <<>>
    /\ typed = NoCreation


Write(word) ==
    /\ Len(draft) < MaxWords
    /\ draft' = Append(draft, word)
    /\ typed' = NoCreation
    /\ UNCHANGED <<migVars, sessVars, embVars, actVars, srchVars, sumVars, blobVars, rankVars, diskVars, ccVars>>

\* Two memories of the same content are created one after the other, in
\* contexts that may differ.
CreateTwice(context, again, type) ==
    /\ typed' = [made |-> TRUE, asked |-> type,
                 first |-> memory_type(draft, context, type),
                 second |-> memory_type(draft, again, type),
                 contexts |-> <<context, again>>]
    /\ UNCHANGED <<draft>>
    /\ UNCHANGED <<migVars, sessVars, embVars, actVars, srchVars, sumVars, blobVars, rankVars, diskVars, ccVars>>

NextCat ==
    \/ \E word \in Vocabulary : Write(word)
    \/ \E context, again \in Contexts : \E type \in {NoType, "tip"} :
          CreateTwice(context, again, type)

(***************************************************************************)
(* Two hook processes run get_or_create_session at overlapping times. Each *)
(* statement that reads or writes the marker file or the sessions table is *)
(* a step of its own.                                                      *)
(***************************************************************************)

HookProcesses == {"pre_tool_use", "post_tool_use"}
HookNow == SESSION_TIMEOUT_SECONDS       \* the time at which both run
EarlierId == generate_session_id(0, 0)   \* the session of an earlier run

\* The marker an earlier run left: refreshed a second ago, or a timeout ago.
MarkerOf(last) ==
    [kind |-> "ok", session_id |-> EarlierId, started_at |-> isoformat(0),
     last_activity_at |-> isoformat(last)]
ValidMarker == MarkerOf(HookNow - 1)
ExpiredMarker == MarkerOf(0)

NoLeft == [kind |-> "none"]
HookAtStart ==
    [pc |-> "start", session_data |-> AbsentMarker, ret |-> NoId, logged |-> NoId]

InitCc ==
    /\ markerFile = AbsentMarker
    /\ sessionRows = <<>>
    /\ hooks = [p \in HookProcesses |-> HookAtStart]
    /\ leftMarker = NoLeft

InitExt ==
    InitSrch /\ InitSum /\ InitBlob /\ InitRank /\ InitCat /\ InitDisk /\ InitCc

OthersThanCc ==
    <<migVars, sessVars, embVars, actVars, srchVars, sumVars, blobVars, rankVars,
      catVars, diskVars>>

\* What the two processes find: a valid marker, an expired one or none. A
\* marker names the session row of the run that wrote it.
HooksFind(kind) ==
    /\ leftMarker = NoLeft
    /\ markerFile' = CASE kind = "valid" -> ValidMarker
                       [] kind = "expired" -> ExpiredMarker
                       [] OTHER -> AbsentMarker
    /\ sessionRows' = IF kind = "missing" THEN <<>>
                      ELSE create_session_in_db(<<>>, EarlierId, 0)
    /\ leftMarker' = [kind |-> kind,
                      rows |-> IF kind = "missing" THEN {} ELSE {EarlierId}]
    /\ UNCHANGED <<hooks>>
    /\ UNCHANGED OthersThanCc

\* session_data = load_session_file()
HookLoad(p) ==
    /\ leftMarker # NoLeft
    /\ hooks[p].pc = "start"
    /\ hooks' = [hooks EXCEPT ![p].pc = "loaded",
                              ![p].session_data = load_session_file(markerFile)]
    /\ UNCHANGED <<markerFile, sessionRows, leftMarker>>
    /\ UNCHANGED OthersThanCc

\* The marker is valid: session_data["last_activity_at"] = now_iso.
HookRefresh(p) ==
    /\ hooks[p].pc = "loaded"
    /\ hooks[p].session_data.kind = "ok"
    /\ is_session_valid(hooks[p].session_data, HookNow)
    /\ hooks' = [hooks EXCEPT ![p].pc = "save",
                              ![p].session_data.last_activity_at = isoformat(HookNow)]
    /\ UNCHANGED <<markerFile, sessionRows, leftMarker>>
    /\ UNCHANGED OthersThanCc

\* The marker is missing, unreadable or expired: generate_session_id,
\* create_session_in_db, the new session_data.
HookCreate(p, r) ==
    LET session_id == generate_session_id(HookNow, r)
    IN  /\ hooks[p].pc = "loaded"
        /\ ~(hooks[p].session_data.kind = "ok"
             /\ is_session_valid(hooks[p].session_data, HookNow))
        /\ sessionRows' = create_session_in_db(sessionRows, session_id, HookNow)
        /\ hooks' = [hooks EXCEPT
                       ![p].pc = "save",
                       ![p].session_data =
                           [kind |-> "ok", session_id |-> session_id,
                            started_at |-> isoformat(HookNow),
                            last_activity_at |-> isoformat(HookNow)]]
        /\ UNCHANGED <<markerFile, leftMarker>>
        /\ UNCHANGED OthersThanCc

\* save_session_file: open(session_file, "w") empties the file.
HookOpenForWrite(p) ==
    /\ hooks[p].pc = "save"
    /\ markerFile' = UnreadableMarker
    /\ hooks' = [hooks EXCEPT ![p].pc = "dump"]
    /\ UNCHANGED <<sessionRows, leftMarker>>
    /\ UNCHANGED OthersThanCc

\* save_session_file: json.dump and the close that flushes it; then
\* return session_data["session_id"].
HookDump(p) ==
    /\ hooks[p].pc = "dump"
    /\ markerFile' = hooks[p].session_data
    /\ hooks' = [hooks EXCEPT ![p].pc = "returned",
                              ![p].ret = hooks[p].session_data.session_id]
    /\ UNCHANGED <<sessionRows, leftMarker>>
    /\ UNCHANGED OthersThanCc

\* main: the activity is inserted under the session id returned.
HookLogActivity(p) ==
    /\ hooks[p].pc = "returned"
    /\ hooks' = [hooks EXCEPT ![p].pc = "done", ![p].logged = hooks[p].ret]
    /\ UNCHANGED <<markerFile, sessionRows, leftMarker>>
    /\ UNCHANGED OthersThanCc

NextConcurrent ==
    \/ \E kind \in {"valid", "expired", "missing"} : HooksFind(kind)
    \/ \E p \in HookProcesses : HookLoad(p)
    \/ \E p \in HookProcesses : HookRefresh(p)
    \/ \E p \in HookProcesses : \E r \in RandomHex : HookCreate(p, r)
    \/ \E p \in HookProcesses : HookOpenForWrite(p)
    \/ \E p \in HookProcesses : HookDump(p)
    \/ \E p \in HookProcesses : HookLogActivity(p)

vars == <<migVars, sessVars, embVars, actVars, extVars>>

\* A database file no migrate() call has touched yet.
MigIdle == InitMig /\ SCHEMA_VERSION = V10 /\ tables = {}

Init == InitMig /\ InitSess /\ InitEmb /\ InitAct /\ InitExt

\* The same, with the database file fixed to a brand-new one.
InitFreshDb == MigIdle /\ InitSess /\ InitEmb /\ InitAct /\ InitExt

Next == NextMig \/ NextSess \/ NextEmb \/ NextBackfill

Spec == Init /\ [][Next]_vars

SpecMig == Init /\ [][NextMig]_vars

SpecSess == InitFreshDb /\ [][NextSess]_vars

SpecHook == InitFreshDb /\ [][NextHook]_vars

SpecLife == InitFreshDb /\ [][NextLife]_vars

SpecEmb == InitFreshDb /\ [][NextEmb]_vars

SpecBackfill == InitFreshDb /\ [][NextBackfill]_vars

SpecRedact == InitFreshDb /\ [][NextRedact]_vars

SpecLog == InitFreshDb /\ [][NextLog]_vars

SpecTrunc == InitFreshDb /\ [][NextTrunc]_vars

SpecActivity == InitFreshDb /\ [][NextActivity]_vars

SpecAgents == InitFreshDb /\ [][NextAgents]_vars

SpecConcurrent == InitFreshDb /\ [][NextConcurrent]_vars

SpecFlag == InitFreshDb /\ [][NextFlag]_vars

SpecCommit == InitFreshDb /\ [][NextCommit]_vars

SpecQuery == InitFreshDb /\ [][NextQuery]_vars

SpecSearch == InitFreshDb /\ [][NextSearch]_vars

SpecAccess == InitFreshDb /\ [][NextAccess]_vars

SpecSummary == InitFreshDb /\ [][NextSummary]_vars

SpecCat == InitFreshDb /\ [][NextCat]_vars

SpecRank == InitFreshDb /\ [][NextRank]_vars

SpecBlob == InitFreshDb /\ [][NextBlob]_vars

SpecGen == InitFreshDb /\ [][NextGen]_vars

SpecNoModel == InitFreshDb /\ [][NextNoModel]_vars

\* A running backfill_embeddings call keeps executing: its process is not
\* stopped, the SELECT and the generator answer, each store commits.
SpecBackfillRun ==
    /\ InitFreshDb
    /\ [][NextBackfillRun]_vars
    /\ WF_vars(BackfillSelect)
    /\ WF_vars(BackfillStoreOne)

(***************************************************************************)
(* Claims about the migration manager (checked under SpecMig).             *)
(***************************************************************************)

\* The versions of MIGRATIONS numerically greater than c, ascending.
VerNum(v) == (v[1] - 48) * 10 + (v[3] - 48)
RECURSIVE AscendingAbove(_, _)
AscendingAbove(c, S) ==
    IF S = {} THEN <<>>
    ELSE LET m == CHOOSE x \in S : \A y \in S : VerNum(x) <= VerNum(y)
         IN  (IF VerNum(m) > VerNum(c) THEN <<m>> ELSE <<>>)
             \o AscendingAbove(c, S \ {m})

EventsOf(kind, trace) ==
    LET sel == SelectSeq(trace, LAMBDA e : e[1] = kind)
    IN  [i \in DOMAIN sel |-> sel[i][2]]

IsPrefix(p, q) == Len(p) <= Len(q) /\ \A i \in DOMAIN p : p[i] = q[i]

\* C1: a migrate() call that follows a successful migrate() call, with no
\* fault injected, does not raise, returns the version the first call
\* returned, runs no migration SQL, inserts no schema_migrations row and
\* leaves get_current_version unchanged -- whether the first call started
\* from a brand-new file or from a migrated one.
C1_MigrateTwiceIdempotent ==
    (call.made /\ call.prev.made /\ ~call.prev.raised /\ call.fault = NoFault)
        => /\ ~call.raised
           /\ call.version = call.prev.version
           /\ call.trace = <<>>
           /\ ledger = call.pre.ledger
           /\ get_current_version(Db) = call.current

\* C2: a migration step that fails leaves the database exactly as it was
\* before that step: no schema change of the step committed, no ledger row.
C2_FailedStepLeavesNoTrace ==
    (call.made /\ call.raised) => Db = call.stepPre

\* C3: on an existing database whose recorded version is c, migrate applies
\* the MIGRATIONS entries with version > c and no others, each once, in
\* ascending order (all of them when it returns, a prefix when it raises);
\* a version's ledger row is written only after its SQL succeeded, and the
\* rows added are exactly those of the versions whose step completed.
C3_AppliesPendingAscending ==
    (call.made /\ call.current # NoVersion) =>
        LET expected == AscendingAbove(call.current, DOMAIN MIGRATIONS)
            begun == EventsOf("begin", call.trace)
            recorded == EventsOf("ledger", call.trace)
        IN  /\ IsPrefix(begun, expected)
            /\ ~call.raised => begun = expected /\ recorded = expected
            /\ call.raised => Len(recorded) = Len(begun) - 1
            /\ IsPrefix(recorded, begun)
            /\ \A i \in DOMAIN call.trace :
                   call.trace[i][1] = "ledger" =>
                       /\ i > 1
                       /\ call.trace[i - 1] = <<"sql_ok", call.trace[i][2]>>
            /\ Len(ledger) = Len(call.pre.ledger) + Len(recorded)
            /\ \A i \in DOMAIN call.pre.ledger : ledger[i] = call.pre.ledger[i]
            /\ \A i \in DOMAIN recorded :
                   ledger[Len(call.pre.ledger) + i].version = recorded[i]
            /\ ~call.raised => call.version = get_current_version(Db)

\* C3 witness: a call on a database recorded at "1.0" that applied "1.1" and
\* then "1.2" and returned.
C3_Witness ==
    /\ call.made
    /\ call.current = V10
    /\ ~call.raised
    /\ EventsOf("ledger", call.trace) = <<V11, V12>>

(***************************************************************************)
(* Claims about sessions.                                                  *)
(***************************************************************************)

Elapsed == hook.at - hook.pre.last_activity_at.t
Expired == hook.pre.kind = "ok" /\ Elapsed >= SESSION_TIMEOUT_SECONDS
Young == hook.pre.kind = "ok" /\ Elapsed < SESSION_TIMEOUT_SECONDS

\* C4: when the marker's last activity is at least the timeout old, or the
\* marker is absent or unreadable, get_or_create_session creates a new
\* session row and returns its id, which differs from the marker's earlier
\* one, and the marker afterwards names the new id.
C4_TimeoutStartsNewSession ==
    (hook.made /\ (Expired \/ hook.pre.kind # "ok")) =>
        /\ hook.ret # hook.pre.session_id
        /\ hook.ret \notin hook.preIds
        /\ hook.postIds = hook.preIds \cup {hook.ret}
        /\ hook.ret \in DOMAIN sessions /\ sessions[hook.ret].ended_at = NoTime
        /\ hook.post.kind = "ok" /\ hook.post.session_id = hook.ret
        /\ marker = hook.post

\* C4 witness: a call exactly one timeout after the last activity.
C4_Witness ==
    /\ hook.made
    /\ hook.pre.kind = "ok"
    /\ Elapsed = SESSION_TIMEOUT_SECONDS
    /\ hook.ret # hook.pre.session_id

\* C5: while the marker's last activity is younger than the timeout,
\* get_or_create_session returns the marker's id, creates no row and sets
\* last_activity_at to the time of the call; every call of a run of calls
\* less than a timeout apart returns the run's first id; and a call changes
\* a readable marker's session_id only when the marker has expired.
C5_ContinuationKeepsSession ==
    /\ (hook.made /\ Young) =>
           /\ hook.ret = hook.pre.session_id
           /\ hook.postIds = hook.preIds
           /\ hook.post = [hook.pre EXCEPT !.last_activity_at = isoformat(hook.at)]
           /\ marker = hook.post
    /\ run.same
    /\ (hook.made /\ hook.pre.kind = "ok"
            /\ hook.post.session_id # hook.pre.session_id) => Expired

\* C5 witness: a run of calls that has lasted a full timeout or longer and
\* still continues its first session.
C5_Witness ==
    /\ hook.made /\ Young
    /\ run.open /\ run.last = hook.at
    /\ run.last - run.first >= SESSION_TIMEOUT_SECONDS
    /\ hook.ret = run.id

\* C6: among the session rows created on the marker's chain, at most one
\* has ended_at null.
C6_AtMostOneActiveSession ==
    Cardinality({id \in DOMAIN sessions :
                    /\ sessions[id].origin = "hook"
                    /\ sessions[id].ended_at = NoTime}) <= 1

\* C7: end_session on an open session sets ended_at; on an ended session it
\* is rejected and leaves the table as it was; on an unknown id it returns
\* none and creates no row; and no step of any operation changes a row that
\* is ended (so ended_at never returns to null, and the summary of the first
\* end stays).
C7_EndResult ==
    ended.made =>
        /\ ended.ret = "none" <=> ended.id \notin DOMAIN ended.pre
        /\ ended.ret = "none" => sessions = ended.pre
        /\ ended.ret = "rejected" <=>
               (ended.id \in DOMAIN ended.pre /\ ended.pre[ended.id].ended_at # NoTime)
        /\ ended.ret = "rejected" => sessions = ended.pre
        /\ ended.ret = "session" =>
               /\ ended.pre[ended.id].ended_at = NoTime
               /\ sessions[ended.id].ended_at # NoTime
               /\ \A id \in DOMAIN sessions \ {ended.id} : sessions[id] = ended.pre[id]
               /\ DOMAIN sessions = DOMAIN ended.pre

C7_EndedRowFrozen ==
    \A id \in DOMAIN sessions :
        sessions[id].ended_at # NoTime =>
            id \in DOMAIN sessions' /\ sessions'[id] = sessions[id]

C7_ClosedOnceNeverReopened == [](C7_EndResult) /\ [][C7_EndedRowFrozen]_vars

\* C7 witness: an end_session call on an already ended session, rejected.
C7_Witness == ended.made /\ ended.ret = "rejected"

(***************************************************************************)
(* Claims about the embedding store and referential integrity.             *)
(***************************************************************************)

RowsOf(m) == {e \in embeddings : e.memory_id = m}

\* C8: there is never more than one embeddings row for a memory_id; a store
\* for a memory that already has a row replaces that row, and get_embedding
\* then returns the vector just stored.
C8_OneEmbeddingPerMemory ==
    /\ \A m \in MemIds : Cardinality(RowsOf(m)) <= 1
    /\ (stored.made /\ ~stored.raised) =>
           /\ Cardinality(RowsOf(stored.memory_id)) = 1
           /\ get_embedding(embeddings, stored.memory_id) = {stored.vector}

\* C8 witness: a second store for a memory, with the other vector.
C8_Witness ==
    /\ stored.made /\ ~stored.raised /\ stored.had
    /\ stored.vector = "vb"

\* C9: every embeddings row and every edge refers only to memories that
\* exist; a store_embedding that names a missing memory writes nothing.
C9_ReferentialIntegrity ==
    /\ \A e \in embeddings : e.memory_id \in DOMAIN memories
    /\ \A r \in relationships :
           r.source_id \in DOMAIN memories /\ r.target_id \in DOMAIN memories
    /\ (stored.made /\ stored.raised) => RowsOf(stored.memory_id) = {}

\* C9 witness: a memory that had an embedding and two edges has just been
\* deleted.
C9_Witness ==
    /\ "deleted" \in DOMAIN stored
    /\ stored.hadEmbedding
    /\ stored.edges = 2

\* C10: across backfill runs cut short and started again, every selection
\* holds only memories whose has_embedding is false, no memory is embedded
\* twice, the stores counted so far are those of distinct memories, and when
\* the last run returns the counts of all the runs add up to the number of
\* memories that lacked an embedding when the first run started, none of
\* which lacks one any more.
C10_BackfillResumable ==
    /\ ~bfh.badSelect
    /\ ~bfh.twice
    /\ bfh.storedIds \subseteq bfh.lacking
    /\ bfh.earlier + bf.total_generated = Cardinality(bfh.storedIds)
    /\ bf.pc = "returned" =>
           /\ bfh.earlier + bf.total_generated = Cardinality(bfh.lacking)
           /\ \A m \in DOMAIN memories : memories[m].has_embedding

\* C10 witness: a first run stopped after one store, and a second run that
\* embedded the rest and returned.
C10_Witness ==
    /\ bf.pc = "returned"
    /\ bfh.runs = 2
    /\ bfh.earlier = 1
    /\ bf.total_generated = 1
    /\ Cardinality(bfh.lacking) = 2

\* What holds of a backfill_embeddings call while it runs and when it
\* returns: it never counts more stores than there were memories lacking an
\* embedding, and at its return no memory lacks one, each memory that lacked
\* one has exactly one row, and the count is the number that lacked one.
C11_ReturnState ==
    /\ bf.total_generated <= Cardinality(bfh.lacking)
    /\ bf.pc = "returned" =>
           /\ \A m \in DOMAIN memories : memories[m].has_embedding
           /\ \A m \in bfh.lacking : Cardinality(RowsOf(m)) = 1
           /\ bf.total_generated = Cardinality(bfh.lacking)

\* C11: with batch_size >= 1, a generator that answers and no other writer,
\* every backfill_embeddings call returns, and at its return no memory has
\* has_embedding = 0, every memory that lacked an embedding has exactly one
\* embeddings row, and the returned count is the number of memories that
\* lacked one when the call started.
C11_BackfillTerminates ==
    /\ [](C11_ReturnState)
    /\ (bf.pc \in {"loop", "store"}) ~> (bf.pc = "returned")

\* C11 witness: a call with batch_size 1 went twice round the loop and
\* returned 2.
C11_Witness ==
    /\ bf.pc = "returned"
    /\ bf.batch_size = 1
    /\ bf.total_generated = 2

\* C12: after a generate_and_store_embedding call in which generation or
\* storage failed, the call has returned None without raising, and the
\* embeddings rows and the has_embedding flag of that memory are, on disk,
\* what they were before the call (none and false for a memory that had no
\* embedding), also once later operations have committed.
C12_FailedEmbeddingLeavesNoTrace ==
    (gen.made /\ gen.failed) =>
        /\ ~gen.raised
        /\ gen.ret = NoEmbeddingId
        /\ {e \in Durable.embeddings : e.memory_id = gen.memory_id} = gen.rowsBefore
        /\ gen.memory_id \in DOMAIN Durable.memories =>
               Durable.memories[gen.memory_id].has_embedding = gen.flagBefore

\* C13: with the model dependency missing, generate_and_store_embedding
\* returns None and is_model_available returns False, backfill_embeddings
\* does not raise, and the calls leave the memories and embeddings tables
\* as they were.
C13_MissingModelNeverRaises ==
    /\ (gen.made /\ ~gen.available) =>
           ~gen.raised /\ gen.ret = NoEmbeddingId /\ ~gen.wrote
    /\ (avail.made /\ ~avail.available) => avail.ret = FALSE
    /\ bf.pc # "raised"

(***************************************************************************)
(* Claims about the activity log.                                          *)
(***************************************************************************)

\* The keys of Keys that one of the five patterns matches when case is
\* ignored: api_key (api[_-]?key) and Auth-Token (token, auth[_-]?token).
C15_SensitiveKeys == {K_api_key, K_Auth_Token}

RECURSIVE C15_RedactedAs(_, _)
C15_RedactedAs(in, out) ==
    /\ out.t = in.t
    /\ in.t = "map" =>
          /\ DOMAIN out.v = DOMAIN in.v
          /\ \A k \in DOMAIN in.v :
                IF k \in C15_SensitiveKeys
                THEN out.v[k].t = "scalar" /\ out.v[k].v = REDACTED
                ELSE IF in.v[k].t = "map" THEN C15_RedactedAs(in.v[k], out.v[k])
                ELSE IF in.v[k].t = "list"
                THEN /\ out.v[k].t = "list"
                     /\ Len(out.v[k].v) = Len(in.v[k].v)
                     /\ \A i \in 1..Len(in.v[k].v) :
                           IF in.v[k].v[i].t = "map"
                           THEN C15_RedactedAs(in.v[k].v[i], out.v[k].v[i])
                           ELSE out.v[k].v[i] = in.v[k].v[i]
                ELSE out.v[k] = in.v[k]
    /\ in.t # "map" => out = in

RECURSIVE C14_Leaks(_)
C14_Leaks(x) ==
    IF x.t = "map"
    THEN \E k \in DOMAIN x.v :
            \/ k \in C15_SensitiveKeys
               /\ ~(x.v[k].t = "scalar" /\ x.v[k].v = REDACTED)
            \/ k \notin C15_SensitiveKeys /\ C14_Leaks(x.v[k])
    ELSE IF x.t = "list" THEN \E i \in 1..Len(x.v) : C14_Leaks(x.v[i])
    ELSE IF x.t = "str" THEN C14_Leaks(x.v)
    ELSE FALSE

\* C14: whichever path wrote it (create_activity, the pre_tool_use hook, the
\* post_tool_use hook) and whatever the shape of the payload, no activity
\* row holds, in tool_input or tool_output, the original value of a key
\* that matches a sensitive pattern.
C14_NoRowHoldsASensitiveValue ==
    \A i \in 1..Len(activities) :
        /\ ~C14_Leaks(activities[i].tool_input.json)
        /\ ~C14_Leaks(activities[i].tool_output.json)

C17_LoggingNeverRaises ==
    logged.made =>
        /\ ~logged.raised
        /\ logged.path = "create_activity" =>
              /\ logged.out.ret \in {"Logged", "Error logging activity"}
              /\ logged.out.ret = "Logged" <=> logged.inserted
        /\ logged.path \in {"pre_tool_use", "post_tool_use"} =>
              /\ logged.out.exit = 0
              /\ logged.out.printed \in {"{}", "systemMessage"}

\* C17 witness: the INSERT of create_activity failed under cortex_log_activity
\* and the tool returned its error string.
C17_Witness ==
    /\ logged.made
    /\ logged.path = "create_activity"
    /\ logged.fault = "insert"
    /\ ~logged.inserted
    /\ logged.out.ret = "Error logging activity"

\* C18: the activity log is append-only. No step of the activity component
\* removes a row or changes a field of a row: every row stays where it is,
\* as it was inserted, and the set of ids only grows.
C18_AppendOnly ==
    [][/\ Len(activities') >= Len(activities)
       /\ \A i \in 1..Len(activities) : activities'[i] = activities[i]]_vars

\* C18 witness: cortex_log_activity came with the id of a row a hook had
\* stored; nothing else failed, the call was refused and the row is there.
C18_Witness ==
    /\ Len(activities) = 1
    /\ activities[1].event_type = "pre_tool_use"
    /\ logged.made /\ logged.path = "create_activity"
    /\ logged.fault = "none" /\ ~logged.inserted

C19_RowsOf(a) == {i \in 1..Len(activities) : activities[i].agent_id = a}

\* C19: after successful create_activity calls, every agent id that was
\* passed has an agents row whose total_activities is the number of
\* activity rows of that agent, whose first_seen is the timestamp of the
\* agent's first activity and whose last_seen is that of its latest; no
\* other agents row exists, and a call without agent id leaves the agents
\* table as it was.
C19_AgentsFollowActivities ==
    /\ \A a \in AgentIds \cup {"agent_b"} :
          LET rows == C19_RowsOf(a)
          IN  IF rows = {} THEN a \notin DOMAIN agents
              ELSE /\ a \in DOMAIN agents
                   /\ agents[a].total_activities = Cardinality(rows)
                   /\ \E i \in rows :
                         /\ \A j \in rows : i <= j
                         /\ agents[a].first_seen = activities[i].timestamp
                   /\ \E i \in rows :
                         /\ \A j \in rows : j <= i
                         /\ agents[a].last_seen = activities[i].timestamp
    /\ (logged.made /\ logged.agent_id = NoAgent) => agents = logged.agentsBefore

\* C19 witness: an agent has logged at two different times, and the last
\* call came without agent id.
C19_Witness ==
    /\ "agent_a" \in DOMAIN agents
    /\ agents["agent_a"].total_activities = 2
    /\ agents["agent_a"].first_seen < agents["agent_a"].last_seen
    /\ logged.made /\ logged.agent_id = NoAgent /\ logged.inserted

C20_Satisfies(row, q) ==
    /\ q.session_id # NoFilter => row.session_id = q.session_id
    /\ q.agent_id # NoFilter => row.agent_id = q.agent_id
    /\ q.event_type # NoFilter => row.event_type = q.event_type
    /\ q.tool_name # NoFilter => row.tool_name = q.tool_name
    /\ q.since # NoTime => row.timestamp >= q.since
    /\ q.until # NoTime => row.timestamp <= q.until

\* C20: get_activities returns (items, total) where total is the number of
\* rows that satisfy every supplied filter, whatever limit and offset are;
\* the items are rows of the log that satisfy the filters, in descending
\* timestamp order, each at its rank offset + k among the matches, and
\* their number is min(limit, max(0, total - offset)).
C20_PageOfMatches ==
    (page.made /\ page.op = "get_activities") =>
        LET q == page.q
            items == page.items
            M == {i \in 1..Len(activities) : C20_Satisfies(activities[i], q)}
            rest == IF Cardinality(M) > q.offset THEN Cardinality(M) - q.offset ELSE 0
        IN  /\ page.total = Cardinality(M)
            /\ Len(items) = IF q.limit < rest THEN q.limit ELSE rest
            /\ \A k \in 1..Len(items) :
                  /\ \E i \in M : activities[i] = items[k]
                  /\ Cardinality({i \in M : activities[i].timestamp > items[k].timestamp})
                        <= q.offset + k - 1
                  /\ Cardinality({i \in M : activities[i].timestamp >= items[k].timestamp})
                        >= q.offset + k
            /\ \A k, l \in 1..Len(items) :
                  k < l => /\ items[k].id # items[l].id
                           /\ items[k].timestamp >= items[l].timestamp

\* C20 witness: two rows of an agent, logged at different times, match the
\* agent filter; the second page of size one holds the older row and total
\* is 2.
C20_Witness ==
    /\ page.made /\ page.op = "get_activities"
    /\ page.q.agent_id = "agent_a" /\ page.q.limit = 1 /\ page.q.offset = 1
    /\ page.total = 2
    /\ Len(activities) = 2
    /\ activities[1].timestamp < activities[2].timestamp
    /\ page.items = <<activities[1]>>

(***************************************************************************)
(* Claims about the memory store and search.                               *)
(***************************************************************************)

\* C21: after any sequence of create, update and delete, the keyword index
\* holds an entry for exactly the memories that exist, with their current
\* content; a keyword search on words of a memory's content finds it (when
\* it is not hidden as archived), and no search of any mode returns a
\* memory that does not exist.
C21_IndexFollowsMemories ==
    /\ DOMAIN fts = DOMAIN notes
    /\ \A id \in DOMAIN notes : fts[id] = notes[id].content
    /\ found.made =>
          /\ found.ids \subseteq DOMAIN found.before
          /\ found.mode = "keyword" =>
                \A id \in DOMAIN found.before :
                    (/\ found.query \subseteq found.before[id].content
                     /\ found.include_archived \/ found.before[id].status # "archived")
                        => id \in found.ids

\* C21 witness: of two memories, a keyword search on both words finds the
\* one that holds both and not the other, while a memory deleted before
\* is gone from the index.
C21_Witness ==
    /\ found.made /\ found.mode = "keyword"
    /\ found.query = Words
    /\ found.ids # {}
    /\ found.ids # DOMAIN found.before
    /\ DOMAIN fts = DOMAIN notes

C22_Touched ==
    found.made =>
        \A id \in DOMAIN found.before :
            IF id \in found.ids
            THEN /\ notes[id].access_count = found.before[id].access_count + 1
                 /\ notes[id].last_accessed >= found.at
            ELSE /\ notes[id].access_count = found.before[id].access_count
                 /\ notes[id].last_accessed = found.before[id].last_accessed

C22_NeverDecreases ==
    \A id \in DOMAIN notes \cap DOMAIN notes' :
        notes'[id].access_count >= notes[id].access_count

\* C22: a search call adds exactly 1 to the access_count of each memory it
\* returns and sets its last_accessed to a time no earlier than the call;
\* the memories it does not return keep both fields; and no step of any
\* operation lowers a memory's access_count.
C22_SearchCountsAccess == [](C22_Touched) /\ [][C22_NeverDecreases]_vars

\* C22 witness: a search made after the clock moved returned one memory
\* and not the other.
C22_Witness ==
    /\ found.made
    /\ found.at > 0
    /\ found.ids # {}
    /\ found.ids # DOMAIN found.before
    /\ \E id \in found.ids : notes[id].last_accessed > found.before[id].last_accessed

\* C23: keyword search without include_archived returns no archived memory;
\* with include_archived it returns the same query's matches together with
\* the archived ones; an archived memory still exists.
C23_ArchivedHiddenByDefault ==
    (found.made /\ found.mode = "keyword") =>
        LET archived == {id \in DOMAIN found.before :
                            found.before[id].status = "archived"}
            matches == {id \in DOMAIN found.before :
                            found.query \subseteq found.before[id].content}
        IN  /\ ~found.include_archived =>
                  /\ found.ids \cap archived = {}
                  /\ found.ids = found.others \ archived
            /\ found.include_archived =>
                  /\ found.ids = matches
                  /\ found.ids = found.others \cup (matches \cap archived)
            /\ archived \subseteq DOMAIN notes

\* C23 witness: a default search left out a memory that an update had
\* archived and that the same query returns with include_archived.
C23_Witness ==
    /\ found.made /\ found.mode = "keyword" /\ ~found.include_archived
    /\ found.ids # {}
    /\ \E id \in found.others \ found.ids :
          /\ found.before[id].status = "archived"
          /\ id \in DOMAIN notes

(***************************************************************************)
(* Claims about the session summary.                                       *)
(***************************************************************************)

C24_EndedSessions == {id \in DOMAIN sessions : sessions[id].ended_at # NoTime}

C24_ComputedAtEnd ==
    \A id \in DOMAIN sessions :
        (sessions[id].ended_at = NoTime /\ sessions'[id].ended_at # NoTime) =>
            LET mine == {i \in 1..Len(attributed) : attributed[i].session_id = id}
                acts == {i \in mine : attributed[i].kind = "activity"}
                s == stats'[id]
            IN  /\ s.total_activities = Cardinality(acts)
                /\ DOMAIN s.tools_used = {attributed[i].tool_name : i \in acts}
                /\ \A tool \in DOMAIN s.tools_used :
                      s.tools_used[tool] =
                          Cardinality({i \in acts : attributed[i].tool_name = tool})
                /\ \A i \in acts :
                      /\ attributed[i].file_path # NoFile
                            => attributed[i].file_path \in s.files_modified
                      /\ ~attributed[i].success
                            => attributed[i].error_message \in s.key_errors
                /\ \A f \in s.files_modified :
                      \E i \in acts : attributed[i].file_path = f
                /\ \A e \in s.key_errors :
                      \E i \in acts : ~attributed[i].success
                                      /\ attributed[i].error_message = e
                /\ s.total_memories_created =
                      Cardinality({i \in mine : attributed[i].kind = "memory"})

C24_FrozenAfterEnd ==
    \A id \in C24_EndedSessions : stats'[id] = stats[id]

C24_ReturnsStored ==
    (summ.made /\ summ.id \in C24_EndedSessions) =>
        /\ summ.found
        /\ summ.summary = stats[summ.id]

\* C24: end_session computes the summary fields from the rows attributed to
\* the session at that moment and stores them; from then on the stored
\* fields do not change, whatever is attributed to the session later, and
\* get_session_summary returns them.
C24_SummaryIsSnapshot ==
    /\ [][C24_ComputedAtEnd /\ C24_FrozenAfterEnd]_vars
    /\ [](C24_ReturnsStored)

\* C24 witness: the summary of an ended session is read after another
\* activity was logged under the session; it counts the rows of before.
C24_RowsOfSummary ==
    Cardinality({i \in 1..Len(attributed) :
                    /\ attributed[i].session_id = summ.id
                    /\ attributed[i].kind = "activity"})
C24_Witness ==
    /\ summ.made /\ summ.found
    /\ summ.id \in C24_EndedSessions
    /\ summ.summary.total_activities > 0
    /\ summ.summary.key_errors # {}
    /\ summ.summary.total_activities < C24_RowsOfSummary

(***************************************************************************)
(* Claims about vector serialization.                                      *)
(***************************************************************************)

\* C25: for a float32 vector v, vector_to_blob(v) has 4 bytes per element
\* and blob_to_vector of it has the length of v and the bits of v, element
\* by element.
C25_BlobRoundTrip ==
    /\ blob.made => Len(blob.bytes) = 4 * Len(vec)
    /\ back.made =>
          /\ Len(back.vector) = Len(vec)
          /\ \A i \in 1..Len(vec) : back.vector[i] = vec[i]

\* C25 witness: a vector of three elements, a NaN with a payload and -0.0
\* among them, has come back from its blob.
C25_Witness ==
    /\ back.made
    /\ Len(vec) = 3
    /\ \E i \in 1..3 : vec[i] = PayloadNaN
    /\ \E i \in 1..3 : vec[i] = NegativeZero
    /\ Len(blob.bytes) = 12

(***************************************************************************)
(* Claims about hybrid ranking.                                            *)
(***************************************************************************)

C26_PlaceOf(i) == CHOOSE k \in DOMAIN ranked.order : ranked.order[k] = i

C26_HigherIn(f, i, j) ==
    /\ cands[i][f] > cands[j][f]
    /\ \A g \in Factors \ {f} : cands[i][g] = cands[j][g]

\* C26: of two memories returned by one hybrid search that are equal in
\* three of the four factors, the one higher in the fourth is not ranked
\* below the other.
C26_MonotonicInEachFactor ==
    ranked.made =>
        \A i, j \in DOMAIN cands : \A f \in Factors :
            C26_HigherIn(f, i, j) => C26_PlaceOf(i) < C26_PlaceOf(j)

\* C26 witness: the later of two matches is higher in access_count alone and
\* comes first.
C26_Witness ==
    /\ ranked.made
    /\ Len(cands) = 2
    /\ C26_HigherIn("access_count", 2, 1)
    /\ ranked.order = <<2, 1>>

(***************************************************************************)
(* Claims about auto-categorization.                                       *)
(***************************************************************************)

C27_Has(cues) == cues \cap CuesOf(draft) # {}

\* The place of a type in the priority order; general comes after all.
C27_Priority(type) ==
    IF type = "general" THEN Len(Rules) + 1
    ELSE CHOOSE k \in DOMAIN Rules : Rules[k].type = type

\* C27: a memory created without a type gets one type that depends on the
\* content only: the type of the earliest rule in the priority order that
\* has a cue in the content, and general when no rule has one.
C27_EarliestRuleWins ==
    (typed.made /\ typed.asked = NoType) =>
        /\ typed.first \in MemoryTypes
        /\ typed.second = typed.first
        /\ typed.first # "general" => RuleMatches(C27_Priority(typed.first), draft)
        /\ \A k \in DOMAIN Rules :
              RuleMatches(k, draft) => C27_Priority(typed.first) <= k
        /\ C27_Has({"warning", "never"}) => typed.first = "warning"
        /\ (draft # <<>> /\ draft[1] = "$" /\ ~C27_Has({"warning", "never"}))
              => typed.first = "command"
        /\ draft = <<"TypeError:", "note">> => typed.first = "error"

\* C27 witness: content with an exception word and a cautionary word, created
\* in two contexts, is a warning both times.
C27_Witness ==
    /\ typed.made
    /\ typed.asked = NoType
    /\ draft = <<"TypeError:", "Never">>
    /\ typed.contexts[1] # typed.contexts[2]
    /\ typed.first = "warning"

(***************************************************************************)
(* Claims about the transaction of create_activity.                        *)
(***************************************************************************)

\* C28: create_activity is all-or-nothing. A call whose INSERT fails leaves
\* the committed agents table and the activities as they were, and a call
\* that succeeds commits its own upsert and nothing left over from a call
\* that failed.
C28_AllOrNothing ==
    [][(logged'.made /\ logged'.path = "create_activity") =>
          IF logged'.inserted
          THEN committedAgents' = Upsert(committedAgents, logged'.agent_id, actClock)
          ELSE committedAgents' = committedAgents /\ activities' = activities]_vars

(***************************************************************************)
(* Claims about the has_embedding flag.                                    *)
(***************************************************************************)

\* C29: in every committed state an existing memory's has_embedding flag is
\* true exactly when an embeddings row with its memory_id exists.
C29_FlagIffRow ==
    \A m \in DOMAIN Durable.memories :
        Durable.memories[m].has_embedding
            <=> \E e \in Durable.embeddings : e.memory_id = m

(***************************************************************************)
(* Claims about concurrent hooks.                                          *)
(***************************************************************************)

C30_BothDone == \A p \in HookProcesses : hooks[p].pc = "done"

\* Two processes that found a valid marker have logged under the marker's
\* session id and created no session row.
C30_ValidMarkerKept ==
    (C30_BothDone /\ leftMarker.kind = "valid") =>
        /\ \A p \in HookProcesses : hooks[p].logged = EarlierId
        /\ DOMAIN sessionRows = leftMarker.rows

\* Two processes that found the marker missing or expired have created one
\* session between them and logged under the id the marker holds afterwards.
C30_OneNewSession ==
    (C30_BothDone /\ leftMarker.kind \in {"expired", "missing"}) =>
        /\ Cardinality(DOMAIN sessionRows \ leftMarker.rows) = 1
        /\ \A p \in HookProcesses : hooks[p].logged = markerFile.session_id

\* C30: concurrent hooks agree on the session. While the marker is valid
\* both return its id and no session row is created, also when one reads
\* the marker while the other rewrites it; when the marker is missing or
\* expired one new session results and both activities are logged under
\* the id the marker holds afterwards.
C30_HooksAgreeOnSession == C30_ValidMarkerKept /\ C30_OneNewSession
====
